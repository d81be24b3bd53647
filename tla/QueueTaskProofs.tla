--------------------------- MODULE QueueTaskProofs ---------------------------
(***************************************************************************)
(* Proofs about QueueTask, for any workers, keys, retry limit and bounds.  *)
(***************************************************************************)
EXTENDS QueueTask, TLAPS

-----------------------------------------------------------------------------
(* The inductive invariant                                                   *)

\* Where the outcome of the attempt is known and being recorded.
Recording == {"record_read", "record_write"}
Ending == {"history"} \cup Recording

\* The history row of the attempt w is in.
Current(w) == [key |-> key[w], worker |-> w, attempt |-> attempt[w],
               status |-> outcome[w]]
Retried(k, w, a) == [key |-> k, worker |-> w, attempt |-> a,
                     status |-> "retry_scheduled"]
Backed(k, s) == \E h \in history : h.key = k /\ h.status = s

\* A retry is scheduled only while the limit allows another attempt.
AttemptInv == \A w \in Workers :
  /\ pc[w] = "sleep" => attempt[w] <= RetryLimit
  /\ pc[w] \in Ending =>
       /\ outcome[w] = "retry_scheduled" => attempt[w] <= RetryLimit
       /\ outcome[w] = "failed" => attempt[w] = RetryLimit + 1

IndType == TypeOK /\ AttemptInv

-----------------------------------------------------------------------------
(* Type correctness                                                          *)

LEMMA AnyKeyIsKey == AnyKey \in Keys
  BY ConstantsAssumption DEF AnyKey

LEMMA InitType == Init => IndType
  BY AnyKeyIsKey, ConstantsAssumption
  DEF Init, IndType, TypeOK, AttemptInv, Ending, Recording, Rows, Absent,
      Statuses, Terminal, Outcomes, Attempts, Pcs, HistoryRows

\* What Reset, Goto and Upsert leave well typed, once for all the actions.
LEMMA ResetType ==
  ASSUME TypeOK, NEW w \in Workers, Reset(w)
  PROVE  /\ pc' \in [Workers -> Pcs] /\ key' \in [Workers -> Keys]
         /\ seen' \in [Workers -> Rows]
         /\ base' \in [Workers -> [dup : Nat, shutdown : BOOLEAN]]
         /\ attempt' \in [Workers -> Attempts]
         /\ outcome' \in [Workers -> Outcomes]
         /\ event' \in [Workers -> BOOLEAN]
         /\ pending' \in [Workers -> SUBSET HistoryRows]
  BY AnyKeyIsKey, ConstantsAssumption
  DEF Reset, Goto, TypeOK, Pcs, Rows, Absent, Statuses, Outcomes, Terminal,
      Attempts

LEMMA UpsertType ==
  ASSUME TypeOK, NEW w \in Workers,
         NEW status \in Statuses, NEW attempts \in 0..(RetryLimit + 1),
         NEW dead \in BOOLEAN, NEW dup \in Nat, NEW shutdown \in BOOLEAN,
         Upsert(w, status, attempts, dead, dup, shutdown)
  PROVE  /\ row' \in [Keys -> Rows]
         /\ history' \in SUBSET HistoryRows
         /\ pending' \in [Workers -> SUBSET HistoryRows]
         /\ dlq' \in SUBSET Keys
  <1>1. [status |-> status, attempts |-> attempts, dead |-> dead,
         dup |-> Larger(dup, base[w].dup),
         shutdown |-> shutdown \/ base[w].shutdown] \in Rows
    BY DEF TypeOK, Rows, Larger
  <1>2. row' \in [Keys -> Rows]
    BY <1>1 DEF Upsert, TypeOK
  <1>3. QED BY <1>2 DEF Upsert, TypeOK

LEMMA StepType == IndType /\ [Next]_vars => IndType'
<1> SUFFICES ASSUME IndType, [Next]_vars PROVE IndType'
  OBVIOUS
<1> USE ConstantsAssumption DEF IndType, Ending, Recording
<1>1. ASSUME NEW k \in Keys, Enqueue(k) PROVE IndType'
  BY <1>1 DEF Enqueue, TypeOK, AttemptInv, tables, local
<1>2. ASSUME NEW w \in Workers, NEW k \in Keys, Receive(w, k) PROVE IndType'
  BY <1>2 DEF Receive, TypeOK, AttemptInv, tables, Goto, Pcs
<1>3. ASSUME NEW w \in Workers, Lookup(w) PROVE IndType'
  BY <1>3 DEF Lookup, TypeOK, AttemptInv, tables, Goto, Pcs
<1>4. ASSUME NEW w \in Workers, ReadExisting(w) PROVE IndType'
  <2>1. TypeOK'
    BY <1>4 DEF ReadExisting, TypeOK, tables, Goto, Pcs, InstalledPcs,
                ReadPcs, WriteAfter, Rows
  <2>2. AttemptInv'
    BY <1>4 DEF ReadExisting, TypeOK, AttemptInv, Goto, ReadPcs, WriteAfter
  <2>3. QED BY <2>1, <2>2
<1>5. ASSUME NEW w \in Workers, PreventDuplicate(w) PROVE IndType'
  <2>1. /\ seen[w].status \in Statuses /\ seen[w].attempts \in 0..(RetryLimit + 1)
        /\ seen[w].dead \in BOOLEAN /\ seen[w].dup + 1 \in Nat
        /\ seen[w].shutdown \in BOOLEAN
    BY DEF TypeOK, Rows
  <2>a. /\ row' \in [Keys -> Rows]
        /\ history' \in SUBSET HistoryRows
        /\ dlq' \in SUBSET Keys
    BY <1>5, <2>1, UpsertType DEF PreventDuplicate
  <2>b. prevented' \in [Keys -> Nat]
    BY <1>5 DEF PreventDuplicate, TypeOK
  <2>2. TypeOK'
    BY <1>5, <2>a, <2>b, ResetType DEF PreventDuplicate, TypeOK
  <2>3. AttemptInv'
    BY <1>5 DEF PreventDuplicate, Reset, Goto, TypeOK, AttemptInv
  <2>4. QED BY <2>2, <2>3
<1>6. ASSUME NEW w \in Workers, InstallController(w) PROVE IndType'
  BY <1>6 DEF InstallController, TypeOK, AttemptInv, tables, Goto, Pcs,
              InstalledPcs
<1>7. ASSUME NEW w \in Workers, RecordStart(w) PROVE IndType'
  <2>a. "running" \in Statuses /\ 0 \in 0..(RetryLimit + 1)
    BY DEF Statuses
  <2>b. Upsert(w, "running", 0, FALSE, 0, FALSE)
    BY <1>7 DEF RecordStart
  <2>c. /\ row' \in [Keys -> Rows]
        /\ history' \in SUBSET HistoryRows
        /\ pending' \in [Workers -> SUBSET HistoryRows]
        /\ dlq' \in SUBSET Keys
    BY <2>a, <2>b, UpsertType
  <2>d. attempt' \in [Workers -> Attempts]
    BY <1>7 DEF RecordStart, TypeOK, Attempts
  <2>1. TypeOK'
    BY <1>7, <2>c, <2>d DEF RecordStart, TypeOK, Goto, Pcs, InstalledPcs
  <2>2. AttemptInv'
    BY <1>7 DEF RecordStart, TypeOK, AttemptInv, Goto
  <2>3. QED BY <2>1, <2>2
<1>8. ASSUME NEW w \in Workers, BeginAttempt(w) PROVE IndType'
  BY <1>8 DEF BeginAttempt, Checkpoint, TypeOK, AttemptInv, tables, Goto, Pcs,
              InstalledPcs, Outcomes, Terminal
<1>9. ASSUME NEW w \in Workers, UpdateProgress(w) PROVE IndType'
  <2>a. "running" \in Statuses /\ 0 \in 0..(RetryLimit + 1)
    BY DEF Statuses
  <2>b. Upsert(w, "running", 0, FALSE, 0, FALSE)
    BY <1>9 DEF UpdateProgress
  <2>c. /\ row' \in [Keys -> Rows]
        /\ history' \in SUBSET HistoryRows
        /\ pending' \in [Workers -> SUBSET HistoryRows]
        /\ dlq' \in SUBSET Keys
    BY <2>a, <2>b, UpsertType
  <2>1. TypeOK'
    BY <1>9, <2>c DEF UpdateProgress, TypeOK, Goto, Pcs, InstalledPcs, Attempts
  <2>2. AttemptInv'
    BY <1>9 DEF UpdateProgress, TypeOK, AttemptInv, Goto
  <2>3. QED BY <2>1, <2>2
<1>10. ASSUME NEW w \in Workers, CheckBeforeWork(w) PROVE IndType'
  BY <1>10 DEF CheckBeforeWork, Checkpoint, TypeOK, AttemptInv, tables, Goto,
               Pcs, InstalledPcs, Outcomes, Terminal
<1>11. ASSUME NEW w \in Workers, Work(w) PROVE IndType'
  <2>1. ran' \in [Keys -> Nat]
    BY <1>11 DEF Work, TypeOK
  <2>2. TypeOK'
    BY <1>11, <2>1 DEF Work, ShouldRetry, TypeOK, tables, Goto, Pcs,
                       InstalledPcs, Outcomes, Terminal
  <2>a. attempt[w] \in 1..(RetryLimit + 1)
    BY DEF TypeOK, Attempts
  <2>3. AttemptInv'
    <3>1. CASE pc' = [pc EXCEPT ![w] = "progress2_read"] /\ UNCHANGED outcome
      BY <1>11, <3>1 DEF Work, TypeOK, AttemptInv
    <3>2. CASE /\ outcome' = [outcome EXCEPT ![w] =
                    IF ShouldRetry(w) THEN "retry_scheduled" ELSE "failed"]
               /\ pc' = [pc EXCEPT ![w] = "history"]
      <4>0. attempt' = attempt BY <1>11 DEF Work
      <4>1. CASE attempt[w] <= RetryLimit
        BY <3>2, <4>0, <4>1 DEF ShouldRetry, TypeOK, AttemptInv
      <4>2. CASE ~(attempt[w] <= RetryLimit)
        <5>1. attempt[w] = RetryLimit + 1 BY <2>a, <4>2
        <5>2. QED BY <3>2, <4>0, <4>2, <5>1 DEF ShouldRetry, TypeOK, AttemptInv
      <4>3. QED BY <4>1, <4>2
    <3>3. QED BY <1>11, <3>1, <3>2 DEF Work, Goto
  <2>4. QED BY <2>2, <2>3
<1>12. ASSUME NEW w \in Workers, CheckAfterWork(w) PROVE IndType'
  BY <1>12 DEF CheckAfterWork, Checkpoint, TypeOK, AttemptInv, tables, Goto,
               Pcs, InstalledPcs, Outcomes, Terminal
<1>13. ASSUME NEW w \in Workers, RecordHistory(w) PROVE IndType'
  <2>1. Current(w) \in HistoryRows
    BY DEF Current, HistoryRows, TypeOK
  <2>2. TypeOK'
    BY <1>13, <2>1 DEF RecordHistory, Current, TypeOK, tables, Goto, Pcs,
                       InstalledPcs
  <2>3. AttemptInv'
    BY <1>13 DEF RecordHistory, TypeOK, AttemptInv, Goto
  <2>4. QED BY <2>2, <2>3
<1>14. ASSUME NEW w \in Workers, RecordOutcome(w) PROVE IndType'
  <2> DEFINE status == IF outcome[w] = "retry_scheduled" THEN "running"
                       ELSE outcome[w]
  <2>1. /\ status \in Statuses
        /\ attempt[w] \in 0..(RetryLimit + 1)
        /\ AfterOutcome[outcome[w]] \in Pcs
    BY DEF TypeOK, Statuses, Outcomes, Terminal, Attempts, AfterOutcome, Pcs,
           InstalledPcs
  <2>2. /\ Upsert(w, status, attempt[w], outcome[w] = "failed", 0, FALSE)
        /\ (outcome[w] = "failed") \in BOOLEAN
    BY <1>14 DEF RecordOutcome
  <2>3. TypeOK'
    BY <1>14, <2>1, <2>2, UpsertType DEF RecordOutcome, TypeOK, Goto
  <2>4. AttemptInv'
    BY <1>14 DEF RecordOutcome, TypeOK, AttemptInv, Goto, AfterOutcome,
                 Outcomes, Terminal
  <2>5. QED BY <2>3, <2>4
<1>15. ASSUME NEW w \in Workers, Wake(w) PROVE IndType'
  BY <1>15 DEF Wake, TypeOK, AttemptInv, tables, Goto, Pcs, InstalledPcs, Attempts
<1>16. ASSUME NEW w \in Workers, DeadLetter(w) PROVE IndType'
  BY <1>16 DEF DeadLetter, TypeOK, AttemptInv, Goto, Pcs, InstalledPcs
<1>17. ASSUME NEW w \in Workers, Finish(w) \/ Crash(w) PROVE IndType'
  <2>1. Reset(w) BY <1>17 DEF Finish, Crash
  <2>2. TypeOK' BY <1>17, <2>1, ResetType DEF Finish, Crash, TypeOK, tables
  <2>3. AttemptInv' BY <2>1 DEF Reset, Goto, TypeOK, AttemptInv
  <2>4. QED BY <2>2, <2>3
<1>18. ASSUME NEW w \in Workers, Signal(w) PROVE IndType'
  <2>1. CASE row[key[w]].status = "absent"
    <3>1. Reset(w) BY <1>18, <2>1 DEF Signal
    <3>2. TypeOK' BY <1>18, <2>1, <3>1, ResetType DEF Signal, TypeOK
    <3>3. AttemptInv' BY <3>1 DEF Reset, Goto, TypeOK, AttemptInv
    <3>4. QED BY <3>2, <3>3
  <2>2. CASE row[key[w]].status # "absent"
    <3>1. row' \in [Keys -> Rows]
      <4>r. row[key[w]] \in Rows
        BY DEF TypeOK
      <4>1. [row[key[w]] EXCEPT !.shutdown = TRUE] \in Rows
        BY <4>r DEF Rows
      <4>2. QED BY <1>18, <2>2, <4>1 DEF Signal, TypeOK
    <3>a. pending[w] \in SUBSET HistoryRows /\ history \in SUBSET HistoryRows
      BY DEF TypeOK
    <3>b. history' = history \cup pending[w] /\ signals' = signals + 1
      BY <1>18 DEF Signal
    <3>h. /\ history' \in SUBSET HistoryRows /\ signals' \in Nat
          /\ pending' \in [Workers -> SUBSET HistoryRows]
          /\ event' \in [Workers -> BOOLEAN]
      <4>1. history' \in SUBSET HistoryRows
        BY <3>a, <3>b
      <4>2. signals' \in Nat
        BY <3>b DEF TypeOK
      <4>3. pending' \in [Workers -> SUBSET HistoryRows]
        BY <1>18, <2>2 DEF Signal, TypeOK
      <4>4. event' \in [Workers -> BOOLEAN]
        BY <1>18, <2>2 DEF Signal, TypeOK
      <4>5. QED BY <4>1, <4>2, <4>3, <4>4
    <3>2. TypeOK'
      BY <1>18, <2>2, <3>1, <3>h DEF Signal, TypeOK
    <3>3. AttemptInv'
      BY <1>18, <2>2 DEF Signal, TypeOK, AttemptInv
    <3>4. QED BY <3>2, <3>3
  <2>3. QED BY <2>1, <2>2
<1>19. CASE UNCHANGED vars
  BY <1>19 DEF vars, tables, local, TypeOK, AttemptInv
<1>20. QED
  BY <1>1, <1>2, <1>3, <1>4, <1>5, <1>6, <1>7, <1>8, <1>9, <1>10, <1>11, <1>12,
     <1>13, <1>14, <1>15, <1>16, <1>17, <1>18, <1>19 DEF Next, Step

LEMMA AlwaysIndType == Spec => []IndType
  BY InitType, StepType, PTL DEF Spec

\* Every variable keeps its type; in particular no run makes more than
\* RetryLimit + 1 attempts.
THEOREM TypeCorrect == Spec => []TypeOK
  BY AlwaysIndType, PTL DEF IndType

-----------------------------------------------------------------------------
(* Final rows and dead letters are backed by committed history               *)

\* The runner is in its attempt loop, or has left it.
Trying == InstalledPcs \ {"start_read", "start_write"}

\* What worker w has to show for where it is: its uncommitted history row is
\* that of the attempt being recorded, a final row it read was backed, every
\* earlier attempt left its retry in the history, and so did this one once it
\* sleeps or goes to the dead letters.
WorkerInv(w) ==
  /\ pending[w] # {} => pc[w] \in Recording /\ pending[w] = {Current(w)}
  /\ pc[w] \in Recording => Current(w) \in pending[w] \cup history
  /\ pc[w] \in {"dup_read", "dup_write"} /\ seen[w].status \in Terminal =>
       Backed(key[w], seen[w].status)
  /\ pc[w] \in Trying =>
       \A a \in Attempts : a < attempt[w] => Retried(key[w], w, a) \in history
  /\ pc[w] = "sleep" => Retried(key[w], w, attempt[w]) \in history
  /\ pc[w] = "dead_letter" => FailingRun(key[w], w)

RunInv == /\ \A w \in Workers : WorkerInv(w)
          /\ TerminalBacked
          /\ DeadLetterExplained

\* A step of one worker leaves what the others hold alone.
SameFor(v) ==
  /\ pc'[v] = pc[v] /\ key'[v] = key[v] /\ seen'[v] = seen[v]
  /\ attempt'[v] = attempt[v] /\ outcome'[v] = outcome[v]
  /\ pending'[v] = pending[v]

LEMMA OthersKeep ==
  ASSUME NEW v \in Workers, WorkerInv(v), SameFor(v), history \subseteq history'
  PROVE  WorkerInv(v)'
<1>1. Current(v)' = Current(v) BY DEF SameFor, Current
<1>2. \A k, s : Backed(k, s) => Backed(k, s)' BY DEF Backed
<1>3. FailingRun(key[v], v) => FailingRun(key[v], v)'
  BY DEF SameFor, FailingRun
<1>4. QED
  BY <1>1, <1>2, <1>3, Zenon DEF WorkerInv, SameFor, Recording, Retried

LEMMA ResetWorkerInv ==
  ASSUME TypeOK, NEW w \in Workers, Reset(w)
  PROVE  WorkerInv(w)'
BY DEF Reset, Goto, TypeOK, WorkerInv, Recording, Trying, InstalledPcs

\* Rows and dead letters that a step leaves alone stay backed.
LEMMA TablesKeep ==
  ASSUME TerminalBacked, DeadLetterExplained, history \subseteq history',
         \A k \in Keys : row'[k].status \in Terminal =>
            \/ row'[k].status = row[k].status
            \/ \E h \in history' : h.key = k /\ h.status = row'[k].status,
         \A k \in dlq' : k \in dlq \/ \E w \in Workers : FailingRun(k, w)'
  PROVE  TerminalBacked' /\ DeadLetterExplained'
<1>1. TerminalBacked'
  BY DEF TerminalBacked, Backed
<1>2. \A k, w : FailingRun(k, w) => FailingRun(k, w)'
  BY DEF FailingRun
<1>3. DeadLetterExplained'
  BY <1>2 DEF DeadLetterExplained
<1>4. QED BY <1>1, <1>3

LEMMA InitRun == Init => RunInv
  BY DEF Init, RunInv, WorkerInv, Recording, Trying, InstalledPcs,
         TerminalBacked, DeadLetterExplained, Absent, Terminal

\* A step that writes no table and no history: the worker's own part is all
\* there is to show.
QuietStep(w) ==
  /\ UNCHANGED <<row, history, dlq>>
  /\ \A v \in Workers \ {w} : SameFor(v)

LEMMA QuietStepKeeps ==
  ASSUME RunInv, NEW w \in Workers, QuietStep(w), WorkerInv(w)'
  PROVE  RunInv'
<1>1. \A v \in Workers : WorkerInv(v)'
  BY OthersKeep DEF RunInv, QuietStep
<1>2. TerminalBacked' /\ DeadLetterExplained'
  BY DEF RunInv, QuietStep, TerminalBacked, DeadLetterExplained, FailingRun
<1>3. QED BY <1>1, <1>2 DEF RunInv

\* An upsert keeps the invariant if the status it writes is not final, or a
\* committed history row backs it, or the one this commit adds.
LEMMA UpsertKeeps ==
  ASSUME IndType, RunInv, NEW w \in Workers, NEW status, NEW attempts, NEW dead,
         NEW dup, NEW shutdown,
         Upsert(w, status, attempts, dead, dup, shutdown),
         \A v \in Workers \ {w} : SameFor(v),
         status \in Terminal =>
           \E h \in history \cup pending[w] : h.key = key[w] /\ h.status = status,
         WorkerInv(w)'
  PROVE  RunInv'
<1>1. history' = history \cup pending[w] /\ dlq' = dlq
  BY DEF Upsert
<1>2. \A v \in Workers : WorkerInv(v)'
  BY <1>1, OthersKeep DEF RunInv
<1>3. \A k \in Keys : k # key[w] => row'[k] = row[k]
  BY DEF Upsert, IndType, TypeOK
<1>4. row'[key[w]].status = status
  BY DEF Upsert, IndType, TypeOK
<1>5. \A k \in Keys : row'[k].status \in Terminal =>
        \/ row'[k].status = row[k].status
        \/ \E h \in history' : h.key = k /\ h.status = row'[k].status
  BY <1>1, <1>3, <1>4
<1>6. TerminalBacked' /\ DeadLetterExplained'
  BY <1>1, <1>5, TablesKeep DEF RunInv
<1>7. QED BY <1>2, <1>6 DEF RunInv

LEMMA RunStep == IndType /\ RunInv /\ [Next]_vars => RunInv'
<1> SUFFICES ASSUME IndType, RunInv, [Next]_vars PROVE RunInv'
  OBVIOUS
<1>t. TypeOK /\ IndType BY DEF IndType
<1>n. \A w \in Workers : WorkerInv(w) BY DEF RunInv
<1> USE DEF Recording, Trying, InstalledPcs
<1>1. ASSUME NEW k \in Keys, Enqueue(k) PROVE RunInv'
  <2>1. UNCHANGED <<tables, local>> BY <1>1 DEF Enqueue
  <2>2. \A w \in Workers : WorkerInv(w)'
    BY <2>1, <1>n, OthersKeep DEF tables, local, SameFor
  <2>3. TerminalBacked' /\ DeadLetterExplained'
    BY <2>1 DEF RunInv, tables, TerminalBacked, DeadLetterExplained, FailingRun
  <2>4. QED BY <2>2, <2>3 DEF RunInv
<1>2. ASSUME NEW w \in Workers, NEW k \in Keys, Receive(w, k) PROVE RunInv'
  <2>1. QuietStep(w) BY <1>2, <1>t DEF Receive, QuietStep, SameFor, tables, Goto, TypeOK
  <2>2. WorkerInv(w)'
    BY <1>2, <1>t, <1>n DEF Receive, WorkerInv, Goto, TypeOK
  <2>3. QED BY <2>1, <2>2, QuietStepKeeps
<1>3. ASSUME NEW w \in Workers, Lookup(w) PROVE RunInv'
  <2>1. QuietStep(w) BY <1>3, <1>t DEF Lookup, QuietStep, SameFor, tables, Goto, TypeOK
  <2>2. row[key[w]].status \in Terminal => Backed(key[w], row[key[w]].status)
    BY <1>t DEF RunInv, TerminalBacked, Backed, TypeOK
  <2>3. seen'[w] = row[key[w]] /\ key' = key /\ history' = history
    BY <1>3, <1>t DEF Lookup, TypeOK, tables
  <2>4. pc'[w] \in {"install", "dup_read"} /\ pending' = pending
    BY <1>3, <1>t DEF Lookup, Goto, TypeOK
  <2>5. pending[w] = {}
    BY <1>3, <1>n DEF Lookup, WorkerInv
  <2>6. WorkerInv(w)'
    BY <2>2, <2>3, <2>4, <2>5 DEF WorkerInv, Backed
  <2>7. QED BY <2>1, <2>6, QuietStepKeeps
<1>4. ASSUME NEW w \in Workers, ReadExisting(w) PROVE RunInv'
  <2>1. QuietStep(w) BY <1>4, <1>t DEF ReadExisting, QuietStep, SameFor, tables, Goto, TypeOK
  <2>2. /\ UNCHANGED <<tables, key, seen, attempt, outcome, pending>>
        /\ pc'[w] = WriteAfter[pc[w]] /\ pc[w] \in ReadPcs
    BY <1>4, <1>t DEF ReadExisting, Goto, TypeOK
  <2>3. /\ pc'[w] \notin {"sleep", "dead_letter"}
        /\ pc[w] \in Recording <=> pc'[w] \in Recording
        /\ pc[w] \in Trying <=> pc'[w] \in Trying
        /\ pc[w] = "dup_read" <=> pc'[w] = "dup_write"
        /\ pc'[w] # "dup_read"
    BY <2>2 DEF ReadPcs, WriteAfter
  <2>4. WorkerInv(w)'
    BY <1>n, <2>2, <2>3 DEF WorkerInv, tables, Current, Backed, Retried
  <2>5. QED BY <2>1, <2>4, QuietStepKeeps
<1>5. ASSUME NEW w \in Workers, PreventDuplicate(w) PROVE RunInv'
  <2>1. \A v \in Workers \ {w} : SameFor(v)
    BY <1>5, <1>t DEF PreventDuplicate, Reset, Goto, SameFor, TypeOK
  <2>2. WorkerInv(w)'
    BY <1>5, <1>t, ResetWorkerInv DEF PreventDuplicate
  <2>3. seen[w].status \in Terminal =>
          \E h \in history \cup pending[w] : h.key = key[w] /\ h.status = seen[w].status
    BY <1>5, <1>n DEF PreventDuplicate, WorkerInv, Backed
  <2>4. Upsert(w, seen[w].status, seen[w].attempts, seen[w].dead,
               seen[w].dup + 1, seen[w].shutdown)
    BY <1>5 DEF PreventDuplicate
  <2>5. QED BY <1>t, <2>1, <2>2, <2>3, <2>4, UpsertKeeps
<1>6. ASSUME NEW w \in Workers, InstallController(w) PROVE RunInv'
  <2>1. QuietStep(w) BY <1>6, <1>t DEF InstallController, QuietStep, SameFor, tables, Goto, TypeOK
  <2>2. WorkerInv(w)'
    BY <1>6, <1>t, <1>n DEF InstallController, WorkerInv, Goto, TypeOK
  <2>3. QED BY <2>1, <2>2, QuietStepKeeps
<1>7. ASSUME NEW w \in Workers, RecordStart(w) PROVE RunInv'
  <2>1. \A v \in Workers \ {w} : SameFor(v)
    BY <1>7, <1>t DEF RecordStart, Upsert, Goto, SameFor, TypeOK
  <2>2. WorkerInv(w)'
    BY <1>7, <1>t DEF RecordStart, Upsert, Goto, WorkerInv, TypeOK, Attempts
  <2>3. Upsert(w, "running", 0, FALSE, 0, FALSE)
    BY <1>7 DEF RecordStart
  <2>4. "running" \notin Terminal
    BY DEF Terminal
  <2>5. QED BY <1>t, <2>1, <2>2, <2>3, <2>4, UpsertKeeps
<1>8. ASSUME NEW w \in Workers,
             BeginAttempt(w) \/ CheckBeforeWork(w) \/ CheckAfterWork(w)
      PROVE  RunInv'
  <2>1. QuietStep(w)
    BY <1>8, <1>t DEF BeginAttempt, CheckBeforeWork, CheckAfterWork, Checkpoint,
       QuietStep, SameFor, tables, Goto, TypeOK
  <2>2. /\ pc[w] \in {"begin", "check1", "check2"}
        /\ pc'[w] \in {"history", "progress1_read", "work"}
        /\ UNCHANGED <<tables, key, seen, attempt, pending>>
    BY <1>8, <1>t DEF BeginAttempt, CheckBeforeWork, CheckAfterWork, Checkpoint,
       Goto, TypeOK
  <2>3. WorkerInv(w)'
    BY <1>n, <2>2 DEF WorkerInv, tables, Retried
  <2>4. QED BY <2>1, <2>3, QuietStepKeeps
<1>9. ASSUME NEW w \in Workers, UpdateProgress(w) PROVE RunInv'
  <2>1. /\ \A v \in Workers \ {w} : SameFor(v)
        /\ Upsert(w, "running", 0, FALSE, 0, FALSE)
    BY <1>9, <1>t DEF UpdateProgress, Upsert, Goto, SameFor, TypeOK
  <2>2. /\ pc[w] \in {"progress1_write", "progress2_write"}
        /\ pc'[w] \in {"check1", "check2"}
        /\ UNCHANGED <<key, attempt>>
        /\ pending'[w] = {} /\ history \subseteq history'
    BY <1>9, <1>t DEF UpdateProgress, Upsert, Goto, TypeOK
  <2>3. WorkerInv(w)'
    BY <1>n, <2>2 DEF WorkerInv, Retried
  <2>4. "running" \notin Terminal
    BY DEF Terminal
  <2>5. QED BY <1>t, <2>1, <2>3, <2>4, UpsertKeeps
<1>10. ASSUME NEW w \in Workers, Work(w) PROVE RunInv'
  <2>1. QuietStep(w) BY <1>10, <1>t DEF Work, QuietStep, SameFor, tables, Goto, TypeOK
  <2>2. /\ pc[w] = "work" /\ pc'[w] \in {"history", "progress2_read"}
        /\ UNCHANGED <<tables, key, seen, attempt, pending>>
    BY <1>10, <1>t DEF Work, Goto, TypeOK
  <2>3. WorkerInv(w)'
    BY <1>n, <2>2 DEF WorkerInv, tables, Retried
  <2>4. QED BY <2>1, <2>3, QuietStepKeeps
<1>11. ASSUME NEW w \in Workers, RecordHistory(w) PROVE RunInv'
  <2>1. QuietStep(w) BY <1>11, <1>t DEF RecordHistory, QuietStep, SameFor, tables, Goto, TypeOK
  <2>2. /\ pc[w] = "history" /\ pc'[w] = "record_read"
        /\ pending'[w] = {Current(w)}
        /\ UNCHANGED <<tables, key, seen, attempt, outcome>>
    BY <1>11, <1>t DEF RecordHistory, Current, Goto, TypeOK
  <2>3. WorkerInv(w)'
    BY <1>n, <2>2 DEF WorkerInv, tables, Retried, Current
  <2>4. QED BY <2>1, <2>3, QuietStepKeeps
<1>12. ASSUME NEW w \in Workers, RecordOutcome(w) PROVE RunInv'
  <2> DEFINE status == IF outcome[w] = "retry_scheduled" THEN "running"
                       ELSE outcome[w]
  <2>1. /\ \A v \in Workers \ {w} : SameFor(v)
        /\ Upsert(w, status, attempt[w], outcome[w] = "failed", 0, FALSE)
    BY <1>12, <1>t DEF RecordOutcome, Upsert, Goto, SameFor, TypeOK
  <2>2. Current(w) \in history \cup pending[w]
    BY <1>12, <1>n DEF RecordOutcome, WorkerInv
  <2>3. status \in Terminal =>
          \E h \in history \cup pending[w] : h.key = key[w] /\ h.status = status
    BY <2>2 DEF Current, Terminal
  <2>4. /\ pc[w] = "record_write" /\ pc'[w] = AfterOutcome[outcome[w]]
        /\ history' = history \cup pending[w] /\ pending'[w] = {}
        /\ UNCHANGED <<key, seen, attempt, outcome>>
    BY <1>12, <1>t DEF RecordOutcome, Upsert, Goto, TypeOK
  <2>5. Current(w) \in history' /\ history \subseteq history'
    BY <2>2, <2>4
  <2>6. outcome[w] \in Outcomes /\ attempt[w] \in Attempts
    BY <1>t DEF TypeOK
  <2>7. pc'[w] \in {"finish", "sleep", "dead_letter"}
    BY <2>4, <2>6 DEF AfterOutcome, Outcomes, Terminal
  <2>8. \A a \in Attempts : a < attempt[w] => Retried(key[w], w, a) \in history'
    BY <1>n, <2>4, <2>5 DEF WorkerInv
  <2>9. pc'[w] = "sleep" => Retried(key[w], w, attempt[w]) \in history'
    BY <2>4, <2>5, <2>6 DEF AfterOutcome, Outcomes, Terminal, Retried, Current
  <2>10. ASSUME pc'[w] = "dead_letter" PROVE FailingRun(key[w], w)'
    <3>1. outcome[w] = "failed"
      BY <2>4, <2>6, <2>10 DEF AfterOutcome, Outcomes, Terminal
    <3>2. attempt[w] = RetryLimit + 1
      BY <2>4, <3>1 DEF IndType, AttemptInv, Ending
    <3>3. \A a \in Attempts : a <= RetryLimit \/ a = attempt[w]
      BY <3>2, ConstantsAssumption DEF Attempts
    <3>4. ASSUME NEW a \in Attempts
          PROVE  [key |-> key[w], worker |-> w, attempt |-> a,
                  status |-> IF a <= RetryLimit THEN "retry_scheduled"
                             ELSE "failed"] \in history'
      <4>1. CASE a <= RetryLimit
        BY <2>8, <3>2, <4>1, ConstantsAssumption DEF Retried, Attempts
      <4>2. CASE a = attempt[w]
        BY <2>5, <3>1, <3>2, <4>2, ConstantsAssumption DEF Current
      <4>3. QED BY <3>3, <4>1, <4>2
    <3>5. QED BY <3>4, <2>4 DEF FailingRun
  <2>11. WorkerInv(w)'
    BY <2>4, <2>7, <2>8, <2>9, <2>10 DEF WorkerInv, Retried, FailingRun
  <2>12. QED BY <1>t, <2>1, <2>3, <2>11, UpsertKeeps
<1>13. ASSUME NEW w \in Workers, Wake(w) PROVE RunInv'
  <2>1. QuietStep(w) BY <1>13, <1>t DEF Wake, QuietStep, SameFor, tables, Goto, TypeOK
  <2>2. /\ pc[w] = "sleep" /\ pc'[w] = "begin" /\ attempt'[w] = attempt[w] + 1
        /\ UNCHANGED <<tables, key, seen, outcome, pending>>
    BY <1>13, <1>t DEF Wake, Goto, TypeOK
  <2>3. attempt[w] \in Nat
    BY <1>t DEF TypeOK, Attempts
  <2>4. \A a \in Attempts : a < attempt'[w] => Retried(key[w], w, a) \in history
    BY <1>n, <2>2, <2>3 DEF WorkerInv, Attempts
  <2>5. WorkerInv(w)'
    BY <1>n, <2>2, <2>4 DEF WorkerInv, tables, Retried
  <2>6. QED BY <2>1, <2>5, QuietStepKeeps
<1>14. ASSUME NEW w \in Workers, DeadLetter(w) PROVE RunInv'
  <2>1. /\ \A v \in Workers \ {w} : SameFor(v)
        /\ UNCHANGED <<row, history, key, seen, attempt, outcome, pending>>
        /\ pc[w] = "dead_letter" /\ pc'[w] = "finish"
        /\ dlq' = dlq \cup {key[w]}
    BY <1>14, <1>t DEF DeadLetter, Goto, SameFor, TypeOK
  <2>2. WorkerInv(w)'
    BY <1>n, <2>1 DEF WorkerInv, Retried
  <2>3. \A v \in Workers : WorkerInv(v)'
    BY <1>n, <2>1, <2>2, OthersKeep
  <2>4. FailingRun(key[w], w)'
    BY <1>n, <2>1 DEF WorkerInv, FailingRun
  <2>5. TerminalBacked' /\ DeadLetterExplained'
    BY <2>1, <2>4, TablesKeep DEF RunInv
  <2>6. QED BY <2>3, <2>5 DEF RunInv
<1>15. ASSUME NEW w \in Workers, Finish(w) \/ Crash(w) PROVE RunInv'
  <2>1. Reset(w) BY <1>15 DEF Finish, Crash
  <2>2. QuietStep(w)
    BY <1>15, <2>1, <1>t DEF Finish, Crash, Reset, Goto, QuietStep, SameFor,
       tables, TypeOK
  <2>3. QED BY <1>t, <2>1, <2>2, ResetWorkerInv, QuietStepKeeps
<1>16. ASSUME NEW w \in Workers, Signal(w) PROVE RunInv'
  <2>1. history' = history \cup pending[w] /\ dlq' = dlq
    BY <1>16 DEF Signal
  <2>2. \A k \in Keys : row'[k].status = row[k].status
    <3>1. CASE row[key[w]].status = "absent"
      BY <1>16, <3>1 DEF Signal
    <3>2. CASE row[key[w]].status # "absent"
      <4>1. row' = [row EXCEPT ![key[w]].shutdown = TRUE]
        BY <1>16, <3>2 DEF Signal
      <4>2. /\ row \in [Keys -> Rows] /\ key[w] \in Keys
        BY <1>t DEF TypeOK
      <4>3. QED BY <4>1, <4>2 DEF Rows
    <3>3. QED BY <3>1, <3>2
  <2>3. TerminalBacked' /\ DeadLetterExplained'
    BY <2>1, <2>2, TablesKeep DEF RunInv
  <2>4. \A v \in Workers \ {w} : SameFor(v)
    BY <1>16, <1>t DEF Signal, Reset, Goto, SameFor, TypeOK
  <2>5. WorkerInv(w)'
    <3>1. CASE row[key[w]].status = "absent"
      BY <1>16, <1>t, <3>1, ResetWorkerInv DEF Signal
    <3>2. CASE row[key[w]].status # "absent"
      <4>1. /\ UNCHANGED <<pc, key, seen, attempt, outcome>>
            /\ pending'[w] = {}
        BY <1>16, <1>t, <3>2 DEF Signal, TypeOK
      <4>2. QED BY <1>n, <2>1, <4>1 DEF WorkerInv, Current, Backed, Retried, FailingRun
    <3>3. QED BY <3>1, <3>2
  <2>6. \A v \in Workers : WorkerInv(v)'
    BY <1>n, <2>1, <2>4, <2>5, OthersKeep
  <2>7. QED BY <2>3, <2>6 DEF RunInv
<1>17. CASE UNCHANGED vars
  <2>1. UNCHANGED <<tables, local>> BY <1>17 DEF vars
  <2>2. \A w \in Workers : WorkerInv(w)'
    BY <2>1, <1>n, OthersKeep DEF tables, local, SameFor
  <2>3. TerminalBacked' /\ DeadLetterExplained'
    BY <2>1 DEF RunInv, tables, TerminalBacked, DeadLetterExplained, FailingRun
  <2>4. QED BY <2>2, <2>3 DEF RunInv
<1>18. QED
  BY <1>1, <1>2, <1>3, <1>4, <1>5, <1>6, <1>7, <1>8, <1>9, <1>10, <1>11, <1>12,
     <1>13, <1>14, <1>15, <1>16, <1>17 DEF Next, Step

LEMMA AlwaysRunInv == Spec => []RunInv
<1>1. Spec => []IndType BY AlwaysIndType
<1>2. QED BY <1>1, InitRun, RunStep, PTL DEF Spec

\* However workers, signals and crashes interleave, a final row is backed by
\* the committed history of an attempt that ended so.
THEOREM FinalRowsAreBacked == Spec => []TerminalBacked
  BY AlwaysRunInv, PTL DEF RunInv

\* However they interleave, a dead letter is explained by one run that used
\* its first attempt and every retry.
THEOREM DeadLettersAreExplained == Spec => []DeadLetterExplained
  BY AlwaysRunInv, PTL DEF RunInv

-----------------------------------------------------------------------------
(* The history of a run reads as one run                                     *)

Unstarted == {"install", "start_read", "start_write"}
InLoop == Trying \ {"sleep", "dead_letter", "finish"}

\* The rows of w's runs for the key it works on: none before it starts, those of
\* earlier attempts while it works, and that of this attempt once it is recorded.
OwnRows(w) ==
  \A h \in history : h.key = key[w] /\ h.worker = w =>
    /\ pc[w] \notin Unstarted
    /\ pc[w] \in InLoop \ Recording => h.attempt < attempt[w]
    /\ pc[w] \in Recording \cup {"sleep"} => h.attempt <= attempt[w]
    /\ pc[w] \in Recording /\ h.attempt = attempt[w] => h.status = outcome[w]

\* A run's row is there once it has started, so that no worker runs a key twice.
Started(w) ==
  /\ pc[w] \in {"dup_read", "dup_write"} => seen[w].status # "absent"
  /\ pc[w] \in Trying => row[key[w]].status # "absent"

HistInv ==
  /\ \A w \in Workers : OwnRows(w) /\ Started(w)
  /\ \A h \in history : row[h.key].status # "absent"
  /\ HistoryIsARun

LEMMA EarlierRow ==
  ASSUME NEW h \in HistoryRows
  PROVE  [h EXCEPT !.attempt = @ - 1, !.status = "retry_scheduled"]
           = Retried(h.key, h.worker, h.attempt - 1)
<1> DEFINE a == h.attempt - 1
           g == [h EXCEPT !.attempt = a]
<1>1. [h EXCEPT !.attempt = @ - 1, !.status = "retry_scheduled"]
        = [g EXCEPT !.status = "retry_scheduled"]
  BY DEF HistoryRows
<1> HIDE DEF a
<1>2. g = [key |-> h.key, worker |-> h.worker, attempt |-> a, status |-> h.status]
  BY DEF HistoryRows
<1> HIDE DEF g
<1>3. [g EXCEPT !.status = "retry_scheduled"] = Retried(h.key, h.worker, a)
  BY <1>2 DEF Retried
<1>4. QED BY <1>1, <1>3 DEF a, g

\* Whatever a step of w commits, the others and the history are as they should.
LEMMA HistStep ==
  ASSUME IndType, RunInv, HistInv, NEW w \in Workers,
         history' = history \/ history' = history \cup pending[w],
         \A v \in Workers \ {w} : SameFor(v),
         \A k \in Keys : row[k].status # "absent" => row'[k].status # "absent",
         OwnRows(w)', Started(w)'
  PROVE  HistInv'
<1>t. /\ TypeOK /\ history \subseteq HistoryRows
      /\ \A v \in Workers : key[v] \in Keys
  BY DEF IndType, TypeOK
<1>1. /\ pending[w] = {} \/ (pending[w] = {Current(w)} /\ pc[w] \in Recording)
      /\ pc[w] \in Recording =>
           \A a \in Attempts : a < attempt[w] => Retried(key[w], w, a) \in history
  BY DEF RunInv, WorkerInv, Trying, InstalledPcs, Recording
<1>2. ASSUME NEW v \in Workers PROVE (OwnRows(v) /\ Started(v))'
  <2>1. CASE v = w
    BY <2>1
  <2>2. CASE v # w
    <3>1. \A h \in history' : h.worker = v => h \in history
      BY <1>1, <2>2 DEF Current
    <3>2. OwnRows(v) /\ Started(v) /\ SameFor(v)
      BY <2>2 DEF HistInv
    <3>3. OwnRows(v)'
      BY <3>1, <3>2 DEF OwnRows, SameFor
    <3>4. Started(v)'
      BY <1>t, <3>2 DEF Started, SameFor
    <3>5. QED BY <3>3, <3>4
  <2>3. QED BY <2>1, <2>2
<1>3. ASSUME NEW h \in history', h \notin history
      PROVE  h = Current(w) /\ pc[w] \in Recording
  BY <1>1, <1>3
<1>4. \A h \in history' : row'[h.key].status # "absent"
  <2>1. ASSUME NEW h \in history PROVE row'[h.key].status # "absent"
    BY <1>t DEF HistInv, HistoryRows
  <2>2. pc[w] \in Recording => row'[key[w]].status # "absent"
    BY <1>t DEF HistInv, Started, Trying, InstalledPcs, Recording
  <2>3. QED BY <1>3, <2>1, <2>2 DEF Current
<1>5. ASSUME NEW h \in history', NEW g \in history',
             <<g.key, g.worker, g.attempt>> = <<h.key, h.worker, h.attempt>>
      PROVE  g.status = h.status
  <2>1. CASE g \in history /\ h \in history
    BY <1>5, <2>1 DEF HistInv, HistoryIsARun
  <2>2. CASE g \notin history /\ h \in history
    BY <1>3, <1>5, <2>2 DEF HistInv, OwnRows, Current
  <2>3. CASE g \in history /\ h \notin history
    BY <1>3, <1>5, <2>3 DEF HistInv, OwnRows, Current
  <2>4. CASE g \notin history /\ h \notin history
    BY <1>3, <2>4
  <2>5. QED BY <2>1, <2>2, <2>3, <2>4
<1>6. ASSUME NEW h \in history', h.attempt > 1
      PROVE  [h EXCEPT !.attempt = @ - 1, !.status = "retry_scheduled"] \in history'
  <2>1. CASE h \in history
    BY <1>6, <2>1 DEF HistInv, HistoryIsARun
  <2>2. CASE h \notin history
    <3>1. h = Current(w) /\ pc[w] \in Recording
      BY <1>3, <2>2
    <3>2. /\ attempt[w] \in Attempts /\ attempt[w] > 1 /\ attempt[w] \in Nat
          /\ attempt[w] - 1 \in Attempts /\ attempt[w] - 1 < attempt[w]
      BY <1>6, <1>t, <3>1, ConstantsAssumption DEF Current, TypeOK, Attempts
    <3>3. Retried(key[w], w, attempt[w] - 1) \in history
      BY <1>1, <3>1, <3>2
    <3>4. [h EXCEPT !.attempt = @ - 1, !.status = "retry_scheduled"]
            = Retried(key[w], w, attempt[w] - 1)
      <4>1. h \in HistoryRows
        BY <1>t, <3>1 DEF Current, HistoryRows, TypeOK
      <4>2. h.key = key[w] /\ h.worker = w /\ h.attempt = attempt[w]
        BY <3>1 DEF Current
      <4>3. QED BY <4>1, <4>2, EarlierRow
    <3>5. QED BY <3>3, <3>4
  <2>3. QED BY <2>1, <2>2
<1>7. HistoryIsARun'
  BY <1>5, <1>6 DEF HistoryIsARun
<1>8. QED BY <1>2, <1>4, <1>7 DEF HistInv

LEMMA ResetKeepsHistory ==
  ASSUME TypeOK, NEW w \in Workers, Reset(w) PROVE (OwnRows(w) /\ Started(w))'
BY DEF Reset, Goto, TypeOK, OwnRows, Started, Recording, Trying, InstalledPcs,
   Unstarted, InLoop

LEMMA InitHistory == Init => HistInv
  BY DEF Init, HistInv, OwnRows, Started, HistoryIsARun, Trying, InstalledPcs

\* A step that leaves the history, the rows and the worker's key as they are.
LEMMA LocalKeepsHistory ==
  ASSUME IndType, RunInv, HistInv, NEW w \in Workers, QuietStep(w),
         OwnRows(w)', Started(w)'
  PROVE  HistInv'
<1>1. history' = history /\ row' = row /\ \A v \in Workers \ {w} : SameFor(v)
  BY DEF QuietStep
<1>2. QED BY <1>1, HistStep

\* An upsert of a status other than "absent".
LEMMA UpsertKeepsHistory ==
  ASSUME IndType, RunInv, HistInv, NEW w \in Workers, NEW status, NEW attempts,
         NEW dead, NEW dup, NEW shutdown, status # "absent",
         Upsert(w, status, attempts, dead, dup, shutdown),
         \A v \in Workers \ {w} : SameFor(v),
         OwnRows(w)',
         pc'[w] \in {"dup_read", "dup_write"} => seen'[w].status # "absent",
         key'[w] = key[w] \/ pc'[w] = "idle"
  PROVE  HistInv'
<1>1. /\ history' = history \cup pending[w]
      /\ row'[key[w]].status = status
      /\ \A k \in Keys : k # key[w] => row'[k] = row[k]
  BY DEF Upsert, IndType, TypeOK
<1>2. Started(w)'
  BY <1>1 DEF Started, Trying, InstalledPcs
<1>3. QED BY <1>1, <1>2, HistStep

LEMMA HistoryStep == IndType /\ RunInv /\ HistInv /\ [Next]_vars => HistInv'
<1> SUFFICES ASSUME IndType, RunInv, HistInv, [Next]_vars PROVE HistInv'
  OBVIOUS
<1>t. TypeOK /\ IndType BY DEF IndType
<1>n. \A w \in Workers : OwnRows(w) /\ Started(w) /\ WorkerInv(w)
  BY DEF HistInv, RunInv
<1> USE DEF Recording, Trying, InstalledPcs, Unstarted, InLoop
<1>1. ASSUME NEW k \in Keys, Enqueue(k) PROVE HistInv'
  BY <1>1 DEF Enqueue, tables, local, HistInv, OwnRows, Started, HistoryIsARun
<1>2. ASSUME NEW w \in Workers, NEW k \in Keys, Receive(w, k) PROVE HistInv'
  <2>1. QuietStep(w) BY <1>2, <1>t DEF Receive, QuietStep, SameFor, tables, Goto, TypeOK
  <2>2. pc'[w] = "lookup"
    BY <1>2, <1>t DEF Receive, Goto, TypeOK
  <2>3. OwnRows(w)' /\ Started(w)'
    BY <2>2 DEF OwnRows, Started
  <2>4. QED BY <2>1, <2>3, LocalKeepsHistory
<1>3. ASSUME NEW w \in Workers, Lookup(w) PROVE HistInv'
  <2>1. QuietStep(w) BY <1>3, <1>t DEF Lookup, QuietStep, SameFor, tables, Goto, TypeOK
  <2>2. /\ seen'[w] = row[key[w]] /\ key' = key /\ history' = history
        /\ pc'[w] = IF row[key[w]].status = "absent" THEN "install" ELSE "dup_read"
    BY <1>3, <1>t DEF Lookup, TypeOK, tables, Goto
  <2>3. OwnRows(w)' /\ Started(w)'
    BY <2>2 DEF OwnRows, Started, HistInv
  <2>4. QED BY <2>1, <2>3, LocalKeepsHistory
<1>4. ASSUME NEW w \in Workers, ReadExisting(w) PROVE HistInv'
  <2>1. QuietStep(w) BY <1>4, <1>t DEF ReadExisting, QuietStep, SameFor, tables, Goto, TypeOK
  <2>2. /\ UNCHANGED <<tables, key, seen, attempt, outcome, pending>>
        /\ pc'[w] = WriteAfter[pc[w]] /\ pc[w] \in ReadPcs
    BY <1>4, <1>t DEF ReadExisting, Goto, TypeOK
  <2>3. /\ pc[w] \in Recording <=> pc'[w] \in Recording
        /\ pc[w] \in Trying <=> pc'[w] \in Trying
        /\ pc[w] \in Unstarted <=> pc'[w] \in Unstarted
        /\ pc[w] \in InLoop <=> pc'[w] \in InLoop
        /\ pc'[w] # "sleep"
        /\ pc[w] \in {"dup_read", "dup_write"} <=> pc'[w] \in {"dup_read", "dup_write"}
    BY <2>2 DEF ReadPcs, WriteAfter
  <2>4. OwnRows(w)' /\ Started(w)'
    <3> HIDE DEF Recording, Trying, InstalledPcs, Unstarted, InLoop
    <3>1. OwnRows(w)'
      BY <1>n, <2>2, <2>3 DEF OwnRows, tables, InLoop
    <3>2. Started(w)'
      BY <1>n, <2>2, <2>3 DEF Started, tables
    <3>3. QED BY <3>1, <3>2
  <2>5. QED BY <2>1, <2>4, LocalKeepsHistory
<1>5. ASSUME NEW w \in Workers, PreventDuplicate(w) PROVE HistInv'
  <2>1. \A v \in Workers \ {w} : SameFor(v)
    BY <1>5, <1>t DEF PreventDuplicate, Reset, Goto, SameFor, TypeOK
  <2>2. OwnRows(w)' /\ pc'[w] = "idle"
    BY <1>5, <1>t, ResetKeepsHistory DEF PreventDuplicate, Reset, Goto, TypeOK
  <2>3. seen[w].status # "absent"
    BY <1>5, <1>n DEF PreventDuplicate, Started
  <2>4. Upsert(w, seen[w].status, seen[w].attempts, seen[w].dead,
               seen[w].dup + 1, seen[w].shutdown)
    BY <1>5 DEF PreventDuplicate
  <2>5. QED BY <2>1, <2>2, <2>3, <2>4, UpsertKeepsHistory
<1>6. ASSUME NEW w \in Workers, InstallController(w) PROVE HistInv'
  <2>1. QuietStep(w) BY <1>6, <1>t DEF InstallController, QuietStep, SameFor, tables, Goto, TypeOK
  <2>2. OwnRows(w)' /\ Started(w)'
    BY <1>6, <1>t, <1>n DEF InstallController, OwnRows, Started, Goto, TypeOK, tables
  <2>3. QED BY <2>1, <2>2, LocalKeepsHistory
<1>7. ASSUME NEW w \in Workers, RecordStart(w) PROVE HistInv'
  <2>1. \A v \in Workers \ {w} : SameFor(v)
    BY <1>7, <1>t DEF RecordStart, Upsert, Goto, SameFor, TypeOK
  <2>2. /\ pc[w] = "start_write" /\ pc'[w] = "begin" /\ key' = key
        /\ Upsert(w, "running", 0, FALSE, 0, FALSE)
        /\ history' = history
    BY <1>7, <1>t, <1>n DEF RecordStart, Goto, TypeOK, Upsert, WorkerInv
  <2>3. OwnRows(w)'
    BY <1>n, <2>2 DEF OwnRows
  <2>4. QED BY <2>1, <2>2, <2>3, UpsertKeepsHistory
<1>8. ASSUME NEW w \in Workers,
             BeginAttempt(w) \/ CheckBeforeWork(w) \/ CheckAfterWork(w) \/ Work(w)
      PROVE  HistInv'
  <2>1. QuietStep(w)
    BY <1>8, <1>t DEF BeginAttempt, CheckBeforeWork, CheckAfterWork, Checkpoint,
       Work, QuietStep, SameFor, tables, Goto, TypeOK
  <2>2. /\ pc[w] \in {"begin", "check1", "check2", "work"}
        /\ pc'[w] \in {"history", "progress1_read", "work", "progress2_read"}
        /\ UNCHANGED <<tables, key, seen, attempt, pending>>
    BY <1>8, <1>t DEF BeginAttempt, CheckBeforeWork, CheckAfterWork, Checkpoint,
       Work, Goto, TypeOK
  <2>3. OwnRows(w)' /\ Started(w)'
    BY <1>n, <2>2 DEF OwnRows, Started, tables
  <2>4. QED BY <2>1, <2>3, LocalKeepsHistory
<1>9. ASSUME NEW w \in Workers, UpdateProgress(w) PROVE HistInv'
  <2>1. /\ \A v \in Workers \ {w} : SameFor(v)
        /\ Upsert(w, "running", 0, FALSE, 0, FALSE)
    BY <1>9, <1>t DEF UpdateProgress, Upsert, Goto, SameFor, TypeOK
  <2>2. /\ pc[w] \in {"progress1_write", "progress2_write"}
        /\ pc'[w] \in {"check1", "check2"}
        /\ UNCHANGED <<key, attempt>> /\ history' = history
    BY <1>9, <1>t, <1>n DEF UpdateProgress, Upsert, Goto, TypeOK, WorkerInv
  <2>3. OwnRows(w)'
    BY <1>n, <2>2 DEF OwnRows
  <2>4. QED BY <2>1, <2>2, <2>3, UpsertKeepsHistory
<1>10. ASSUME NEW w \in Workers, RecordHistory(w) PROVE HistInv'
  <2>1. QuietStep(w) BY <1>10, <1>t DEF RecordHistory, QuietStep, SameFor, tables, Goto, TypeOK
  <2>2. /\ pc[w] = "history" /\ pc'[w] = "record_read"
        /\ UNCHANGED <<tables, key, seen, attempt, outcome>>
    BY <1>10, <1>t DEF RecordHistory, Goto, TypeOK
  <2>3. \A h \in history : h.attempt \in Nat
    BY <1>t DEF TypeOK, HistoryRows, Attempts
  <2>4. attempt[w] \in Nat
    BY <1>t DEF TypeOK, Attempts
  <2>5. OwnRows(w)' /\ Started(w)'
    BY <1>n, <2>2, <2>3, <2>4 DEF OwnRows, Started, tables
  <2>6. QED BY <2>1, <2>5, LocalKeepsHistory
<1>11. ASSUME NEW w \in Workers, RecordOutcome(w) PROVE HistInv'
  <2> DEFINE status == IF outcome[w] = "retry_scheduled" THEN "running"
                       ELSE outcome[w]
  <2>1. /\ \A v \in Workers \ {w} : SameFor(v)
        /\ Upsert(w, status, attempt[w], outcome[w] = "failed", 0, FALSE)
    BY <1>11, <1>t DEF RecordOutcome, Upsert, Goto, SameFor, TypeOK
  <2>2. outcome[w] \in Outcomes /\ attempt[w] \in Nat
    BY <1>t DEF TypeOK, Attempts
  <2>3. status # "absent"
    BY <2>2 DEF Outcomes, Terminal
  <2>4. /\ pc[w] = "record_write" /\ pc'[w] = AfterOutcome[outcome[w]]
        /\ history' = history \cup pending[w]
        /\ UNCHANGED <<key, seen, attempt, outcome>>
    BY <1>11, <1>t DEF RecordOutcome, Upsert, Goto, TypeOK
  <2>5. pc'[w] \in {"finish", "sleep", "dead_letter"}
    BY <2>2, <2>4 DEF AfterOutcome, Outcomes, Terminal
  <2>6. \A h \in pending[w] : h = Current(w)
    BY <1>n DEF WorkerInv
  <2>7. OwnRows(w)'
    BY <1>n, <2>2, <2>4, <2>5, <2>6 DEF OwnRows, Current
  <2>8. QED BY <2>1, <2>3, <2>4, <2>5, <2>7, UpsertKeepsHistory
<1>12. ASSUME NEW w \in Workers, Wake(w) PROVE HistInv'
  <2>1. QuietStep(w) BY <1>12, <1>t DEF Wake, QuietStep, SameFor, tables, Goto, TypeOK
  <2>2. /\ pc[w] = "sleep" /\ pc'[w] = "begin" /\ attempt'[w] = attempt[w] + 1
        /\ UNCHANGED <<tables, key, seen, outcome, pending>>
    BY <1>12, <1>t DEF Wake, Goto, TypeOK
  <2>3. attempt[w] \in Nat /\ \A h \in history : h.attempt \in Nat
    BY <1>t DEF TypeOK, HistoryRows, Attempts
  <2>4. OwnRows(w)' /\ Started(w)'
    BY <1>n, <2>2, <2>3 DEF OwnRows, Started, tables
  <2>5. QED BY <2>1, <2>4, LocalKeepsHistory
<1>13. ASSUME NEW w \in Workers, DeadLetter(w) PROVE HistInv'
  <2>1. /\ \A v \in Workers \ {w} : SameFor(v)
        /\ UNCHANGED <<row, history, key, seen, attempt, outcome, pending>>
        /\ pc[w] = "dead_letter" /\ pc'[w] = "finish"
    BY <1>13, <1>t DEF DeadLetter, Goto, SameFor, TypeOK
  <2>2. OwnRows(w)' /\ Started(w)'
    BY <1>n, <2>1 DEF OwnRows, Started
  <2>3. QED BY <2>1, <2>2, HistStep
<1>14. ASSUME NEW w \in Workers, Finish(w) \/ Crash(w) PROVE HistInv'
  <2>1. Reset(w) BY <1>14 DEF Finish, Crash
  <2>2. QuietStep(w)
    BY <1>14, <2>1, <1>t DEF Finish, Crash, Reset, Goto, QuietStep, SameFor,
       tables, TypeOK
  <2>3. QED BY <1>t, <2>1, <2>2, ResetKeepsHistory, LocalKeepsHistory
<1>15. ASSUME NEW w \in Workers, Signal(w) PROVE HistInv'
  <2>1. history' = history \cup pending[w]
    BY <1>15 DEF Signal
  <2>2. \A k \in Keys : row'[k].status = row[k].status
    <3>1. CASE row[key[w]].status = "absent"
      BY <1>15, <3>1 DEF Signal
    <3>2. CASE row[key[w]].status # "absent"
      <4>1. row' = [row EXCEPT ![key[w]].shutdown = TRUE]
        BY <1>15, <3>2 DEF Signal
      <4>2. /\ row \in [Keys -> Rows] /\ key[w] \in Keys
        BY <1>t DEF TypeOK
      <4>3. QED BY <4>1, <4>2 DEF Rows
    <3>3. QED BY <3>1, <3>2
  <2>3. \A v \in Workers \ {w} : SameFor(v)
    BY <1>15, <1>t DEF Signal, Reset, Goto, SameFor, TypeOK
  <2>4. OwnRows(w)' /\ Started(w)'
    <3>1. CASE row[key[w]].status = "absent"
      BY <1>15, <1>t, <3>1, ResetKeepsHistory DEF Signal
    <3>2. CASE row[key[w]].status # "absent"
      <4>1. UNCHANGED <<pc, key, seen, attempt, outcome>> /\ key[w] \in Keys
        BY <1>15, <1>t, <3>2 DEF Signal, TypeOK
      <4>2. /\ \A h \in pending[w] : h = Current(w) /\ pc[w] \in Recording
            /\ attempt[w] \in Nat
        BY <1>n, <1>t DEF WorkerInv, TypeOK, Attempts
      <4>3. OwnRows(w)'
        BY <1>n, <2>1, <4>1, <4>2 DEF OwnRows, Current
      <4>4. Started(w)'
        BY <1>n, <2>2, <4>1 DEF Started
      <4>5. QED BY <4>3, <4>4
    <3>3. QED BY <3>1, <3>2
  <2>5. QED BY <2>1, <2>2, <2>3, <2>4, HistStep
<1>16. CASE UNCHANGED vars
  BY <1>16 DEF vars, tables, local, HistInv, OwnRows, Started, HistoryIsARun
<1>17. QED
  BY <1>1, <1>2, <1>3, <1>4, <1>5, <1>6, <1>7, <1>8, <1>9, <1>10, <1>11, <1>12,
     <1>13, <1>14, <1>15, <1>16 DEF Next, Step

LEMMA AlwaysHistInv == Spec => []HistInv
<1>1. Spec => []IndType BY AlwaysIndType
<1>2. Spec => []RunInv BY AlwaysRunInv
<1>3. QED BY <1>1, <1>2, InitHistory, HistoryStep, PTL DEF Spec

\* Whatever workers run a key, are signalled or killed, the history rows of one
\* worker's run end each attempt one way and follow a scheduled retry.
THEOREM HistoriesAreRuns == Spec => []HistoryIsARun
<1>1. HistInv => HistoryIsARun BY DEF HistInv
<1>2. QED BY <1>1, AlwaysHistInv, PTL

-----------------------------------------------------------------------------
(***************************************************************************)
(* One worker process, for any keys, retry limit, signals and crashes: the *)
(* runner implements QueueContract, counts the duplicates it answers, and  *)
(* without a crash leaves no run behind.  With one worker the row that     *)
(* Lookup or a SELECT has read is still the row that the write after it    *)
(* replaces; a second worker breaks all three.                             *)
(***************************************************************************)
Serial == \E w : Workers = {w}

-----------------------------------------------------------------------------
(* The invariant *)

WritePcs == {"dup_write", "start_write", "progress1_write", "progress2_write",
             "record_write"}
\* The run has a row and has not ended.
Running == InLoop \cup {"sleep"}
BeforeWork == {"begin", "progress1_read", "progress1_write", "check1", "work"}
AfterWork == {"progress2_read", "progress2_write", "check2", "sleep"}

\* What the worker has read still holds, its row says how far its run is, and
\* its work was begun once or not at all.
Hand(w) ==
  /\ pc[w] \in {"dup_read", "dup_write"} =>
       seen[w].status = row[key[w]].status /\ seen[w].dup = row[key[w]].dup
  /\ pc[w] \in WritePcs => base[w].dup = row[key[w]].dup
  /\ pc[w] \in Unstarted => row[key[w]].status = "absent"
  /\ pc[w] \in Running => row[key[w]].status = "running"
  /\ pc[w] = "dead_letter" => row[key[w]].status = "failed"
  /\ pc[w] = "finish" =>
       /\ row[key[w]].status \in Terminal
       /\ row[key[w]].status = "failed" => key[w] \in dlq
  /\ pc[w] \in BeforeWork /\ attempt[w] = 1 => ran[key[w]] = 0
  /\ pc[w] \in Running /\ attempt[w] > 1 => ran[key[w]] = 1
  /\ pc[w] \in AfterWork => ran[key[w]] = 1
  /\ pc[w] \in Ending /\ outcome[w] # "cancelled" => ran[key[w]] = 1

\* The tables, but for the run in hand.
Settled ==
  \A k \in Keys :
    /\ row[k].dup = prevented[k]
    /\ row[k].status = "absent" => ran[k] = 0
    /\ k \in dlq => row[k].status = "failed"

NoneLost ==
  crashes = 0 => \A k \in Keys :
    /\ row[k].status = "running" =>
         \E w \in Workers : key[w] = k /\ pc[w] \in Running
    /\ row[k].status = "failed" =>
         k \in dlq \/ \E w \in Workers : key[w] = k /\ pc[w] = "dead_letter"

SerialInv == Settled /\ NoneLost /\ \A w \in Workers : Hand(w)
CStep == [Contract!Next]_(Contract!vars)

LEMMA Facts ==
  ASSUME IndType, NEW w \in Workers
  PROVE  /\ row \in [Keys -> Rows] /\ key \in [Workers -> Keys] /\ key[w] \in Keys
         /\ pc \in [Workers -> Pcs] /\ seen \in [Workers -> Rows]
         /\ base \in [Workers -> [dup : Nat, shutdown : BOOLEAN]]
         /\ attempt \in [Workers -> Attempts] /\ attempt[w] \in Nat /\ attempt[w] > 0
         /\ outcome \in [Workers -> Outcomes]
         /\ ran \in [Keys -> Nat] /\ prevented \in [Keys -> Nat]
         /\ pending \in [Workers -> SUBSET HistoryRows]
BY ConstantsAssumption DEF IndType, TypeOK, Attempts

\* A step that leaves the tables as they are is a stutter of the contract.
LEMMA TablesStutter ==
  ASSUME UNCHANGED <<row, dlq, ran>> PROVE CStep
BY DEF CStep, Contract!vars

\* Work and dead letters are steps of the contract of their own.
LEMMA ContractStep ==
  ASSUME NEW k \in Keys, Contract!Work(k) \/ Contract!SetAside(k) PROVE CStep
BY Zenon DEF CStep, Contract!Next

\* An upsert that starts or ends the run of a key is that step of the contract.
LEMMA ContractUpsert ==
  ASSUME NEW k \in Keys, NEW how, UNCHANGED <<ran, dlq>>,
         [j \in Keys |-> row'[j].status]
           = [[j \in Keys |-> row[j].status] EXCEPT ![k] = how],
         \/ row[k].status = "absent" /\ how = "running"
         \/ /\ row[k].status = "running" /\ how \in {"completed", "failed", "cancelled"}
            /\ how = "cancelled" \/ ran[k] = 1
  PROVE  CStep
<1>1. CASE row[k].status = "absent" /\ how = "running"
  <2>1. Contract!Start(k) BY <1>1 DEF Contract!Start
  <2>2. QED BY Zenon, <2>1 DEF CStep, Contract!Next
<1>2. CASE row[k].status # "absent" \/ how # "running"
  <2>1. Contract!End(k, how) BY <1>2 DEF Contract!End
  <2>2. how \in {"completed", "failed", "cancelled"} BY <1>2
  <2>3. QED BY Zenon, <2>1, <2>2 DEF CStep, Contract!Next
<1>3. QED BY <1>1, <1>2

LEMMA UpsertTables ==
  ASSUME IndType, NEW w \in Workers, NEW status, NEW attempts, NEW dead,
         NEW dup, NEW shutdown, Upsert(w, status, attempts, dead, dup, shutdown)
  PROVE  /\ row'[key[w]].status = status
         /\ row'[key[w]].dup = Larger(dup, base[w].dup)
         /\ \A k \in Keys : k # key[w] => row'[k] = row[k]
         /\ dlq' = dlq
         /\ [k \in Keys |-> row'[k].status]
              = [[k \in Keys |-> row[k].status] EXCEPT ![key[w]] = status]
BY Facts DEF Upsert

\* An upsert that keeps the status is a stutter of the contract.
LEMMA UpsertStutter ==
  ASSUME IndType, NEW w \in Workers, NEW status, NEW attempts, NEW dead,
         NEW dup, NEW shutdown, Upsert(w, status, attempts, dead, dup, shutdown),
         row[key[w]].status = status, ran' = ran
  PROVE  CStep
<1>1. [k \in Keys |-> row'[k].status] = [k \in Keys |-> row[k].status]
  <2>1. \A k \in Keys : row'[k].status = row[k].status
    BY UpsertTables
  <2>2. QED BY <2>1
<1>2. dlq' = dlq
  BY UpsertTables
<1>3. QED BY <1>1, <1>2 DEF CStep, Contract!vars

-----------------------------------------------------------------------------
(* The steps *)

\* A step of the only worker that changes no row, dead letter, count or crash.
LEMMA QuietSerial ==
  ASSUME IndType, SerialInv, NEW w \in Workers, Workers = {w},
         UNCHANGED <<row, dlq, ran, prevented>>, crashes' = 0 => crashes = 0,
         Hand(w)',
         crashes' = 0 /\ pc[w] \in Running =>
           pc'[w] \in Running /\ key'[w] = key[w],
         crashes' = 0 => pc[w] # "dead_letter"
  PROVE  SerialInv' /\ CStep
<1>1. CStep
  BY TablesStutter
<1>2. Settled'
  BY DEF SerialInv, Settled
<1>3. NoneLost'
  BY DEF SerialInv, NoneLost
<1>4. QED BY <1>1, <1>2, <1>3 DEF SerialInv

\* An upsert by the only worker.
LEMMA UpsertSerial ==
  ASSUME IndType, SerialInv, NEW w \in Workers, Workers = {w}, NEW status,
         NEW attempts, NEW dead, NEW dup, NEW shutdown,
         Upsert(w, status, attempts, dead, dup, shutdown),
         UNCHANGED <<ran, crashes>>, Hand(w)', status # "absent",
         \A k \in Keys : k # key[w] => prevented'[k] = prevented[k],
         Larger(dup, base[w].dup) = prevented'[key[w]],
         key[w] \in dlq => status = "failed",
         pc[w] # "dead_letter",
         status = "running" /\ crashes = 0 => pc'[w] \in Running /\ key'[w] = key[w],
         status = "failed" /\ crashes = 0 =>
           key[w] \in dlq \/ (pc'[w] = "dead_letter" /\ key'[w] = key[w])
  PROVE  SerialInv'
<1>1. /\ row'[key[w]].status = status /\ row'[key[w]].dup = prevented'[key[w]]
      /\ \A k \in Keys : k # key[w] => row'[k] = row[k]
      /\ dlq' = dlq /\ key[w] \in Keys
  BY UpsertTables, Facts
<1>2. Settled'
  <2> SUFFICES ASSUME NEW k \in Keys
               PROVE  /\ row'[k].dup = prevented'[k]
                      /\ row'[k].status = "absent" => ran'[k] = 0
                      /\ k \in dlq' => row'[k].status = "failed"
    BY DEF Settled
  <2>1. CASE k = key[w]
    BY <1>1, <2>1
  <2>2. CASE k # key[w]
    BY <1>1, <2>2 DEF SerialInv, Settled
  <2>3. QED BY <2>1, <2>2
<1>3. NoneLost'
  <2> SUFFICES ASSUME crashes = 0, NEW k \in Keys
               PROVE  /\ row'[k].status = "running" =>
                           \E v \in Workers : key'[v] = k /\ pc'[v] \in Running
                      /\ row'[k].status = "failed" =>
                           k \in dlq' \/ \E v \in Workers :
                             key'[v] = k /\ pc'[v] = "dead_letter"
    BY DEF NoneLost
  <2>1. CASE k = key[w]
    BY <1>1, <2>1
  <2>2. CASE k # key[w]
    BY <1>1, <2>2 DEF SerialInv, NoneLost
  <2>3. QED BY <2>1, <2>2
<1>4. QED BY <1>2, <1>3 DEF SerialInv

LEMMA IdleHand ==
  ASSUME NEW w \in Workers, pc[w] \in {"idle", "lookup"} PROVE Hand(w)
BY DEF Hand, WritePcs, Unstarted, Running, InLoop, Trying, InstalledPcs, BeforeWork,
   AfterWork, Ending, Recording

LEMMA SerialStep ==
  ASSUME IndType, RunInv, HistInv, SerialInv, NEW w \in Workers, Workers = {w},
         [Next]_vars
  PROVE  SerialInv' /\ CStep
<1>f. /\ row \in [Keys -> Rows] /\ key \in [Workers -> Keys] /\ key[w] \in Keys
      /\ pc \in [Workers -> Pcs] /\ seen \in [Workers -> Rows]
      /\ base \in [Workers -> [dup : Nat, shutdown : BOOLEAN]]
      /\ attempt \in [Workers -> Attempts] /\ attempt[w] \in Nat /\ attempt[w] > 0
      /\ outcome \in [Workers -> Outcomes]
      /\ ran \in [Keys -> Nat] /\ prevented \in [Keys -> Nat]
  BY Facts
<1>i. /\ \A k \in Keys : row[k].dup = prevented[k]
      /\ \A k \in Keys : row[k].status = "absent" => ran[k] = 0
      /\ \A k \in Keys : k \in dlq => row[k].status = "failed"
      /\ Hand(w) /\ Started(w)
  BY DEF SerialInv, Settled, HistInv
<1>r. \A a \in Nat : Larger(0, a) = a
  BY DEF Larger
<1> USE DEF Recording, Trying, InstalledPcs, Unstarted, InLoop, Running, WritePcs,
        BeforeWork, AfterWork, Ending
<1>1. ASSUME NEW k \in Keys, Enqueue(k) PROVE SerialInv' /\ CStep
  <2>1. UNCHANGED <<tables, local, crashes, ran, prevented>>
    BY <1>1 DEF Enqueue
  <2>2. Hand(w)' /\ Settled' /\ NoneLost'
    BY <1>i, <2>1 DEF Hand, Settled, SerialInv, NoneLost, tables, local
  <2>3. QED BY <2>1, <2>2, TablesStutter DEF SerialInv, tables
<1>2. ASSUME NEW k \in Keys, Receive(w, k) PROVE SerialInv' /\ CStep
  <2>1. /\ pc[w] = "idle" /\ pc'[w] = "lookup"
        /\ UNCHANGED <<tables, crashes, ran, prevented>>
    BY <1>2, <1>f DEF Receive, Goto
  <2>2. Hand(w)'
    BY <2>1 DEF Hand
  <2>3. QED BY <2>1, <2>2, QuietSerial DEF tables
<1>3. CASE Lookup(w)
  <2>1. /\ pc[w] = "lookup" /\ seen'[w] = row[key[w]]
        /\ pc'[w] = IF row[key[w]].status = "absent" THEN "install" ELSE "dup_read"
        /\ UNCHANGED <<tables, key, crashes, ran, prevented>>
    BY <1>3, <1>f DEF Lookup, Goto
  <2>2. Hand(w)'
    BY <2>1 DEF Hand, tables
  <2>3. QED BY <2>1, <2>2, QuietSerial DEF tables
<1>4. CASE ReadExisting(w)
  <2>1. /\ pc[w] \in ReadPcs /\ pc'[w] = WriteAfter[pc[w]]
        /\ base'[w].dup = row[key[w]].dup
        /\ UNCHANGED <<tables, key, seen, attempt, outcome, crashes, ran, prevented>>
    BY <1>4, <1>f DEF ReadExisting, Goto
  <2>2. \/ pc[w] = "dup_read" /\ pc'[w] = "dup_write"
        \/ pc[w] = "start_read" /\ pc'[w] = "start_write"
        \/ pc[w] = "progress1_read" /\ pc'[w] = "progress1_write"
        \/ pc[w] = "progress2_read" /\ pc'[w] = "progress2_write"
        \/ pc[w] = "record_read" /\ pc'[w] = "record_write"
    BY <2>1 DEF ReadPcs, WriteAfter
  <2>3. Hand(w)'
    BY <1>i, <2>1, <2>2 DEF Hand, tables
  <2>4. QED BY <2>1, <2>2, <2>3, QuietSerial DEF tables
<1>5. CASE PreventDuplicate(w)
  <2>1. /\ pc[w] = "dup_write" /\ pc'[w] = "idle"
        /\ Upsert(w, seen[w].status, seen[w].attempts, seen[w].dead,
                  seen[w].dup + 1, seen[w].shutdown)
        /\ prevented' = [prevented EXCEPT ![key[w]] = @ + 1]
        /\ UNCHANGED <<crashes, ran>>
    BY <1>5, <1>f DEF PreventDuplicate, Reset, Goto
  <2>2. Hand(w)'
    BY <2>1 DEF Hand
  <2>3. /\ seen[w].status = row[key[w]].status /\ seen[w].dup = row[key[w]].dup
        /\ base[w].dup = row[key[w]].dup /\ seen[w].status # "absent"
    BY <1>i, <2>1 DEF Hand, Started
  <2>4. prevented[key[w]] \in Nat /\ row[key[w]].dup = prevented[key[w]]
    BY <1>f, <1>i
  <2>5. Larger(seen[w].dup + 1, base[w].dup) = prevented'[key[w]]
    BY <1>f, <2>1, <2>3, <2>4 DEF Larger
  <2>6. \A k \in Keys : k # key[w] => prevented'[k] = prevented[k]
    BY <1>f, <2>1
  <2>7. /\ crashes = 0 => row[key[w]].status # "running"
        /\ crashes = 0 /\ row[key[w]].status = "failed" => key[w] \in dlq
    BY <1>f, <2>1 DEF SerialInv, NoneLost
  <2>8. SerialInv'
    BY <1>f, <1>i, <2>1, <2>2, <2>3, <2>5, <2>6, <2>7, UpsertSerial
  <2>9. CStep
    BY <2>1, <2>3, UpsertStutter
  <2>10. QED BY <2>8, <2>9
<1>6. CASE InstallController(w)
  <2>1. /\ pc[w] = "install" /\ pc'[w] = "start_read"
        /\ UNCHANGED <<tables, key, seen, base, crashes, ran, prevented>>
    BY <1>6, <1>f DEF InstallController, Goto
  <2>2. Hand(w)'
    BY <1>i, <2>1 DEF Hand, tables
  <2>3. QED BY <2>1, <2>2, QuietSerial DEF tables
<1>7. CASE RecordStart(w)
  <2>1. /\ pc[w] = "start_write" /\ pc'[w] = "begin" /\ attempt'[w] = 1
        /\ Upsert(w, "running", 0, FALSE, 0, FALSE)
        /\ UNCHANGED <<key, crashes, ran, prevented>>
    BY <1>7, <1>f DEF RecordStart, Goto
  <2>2. /\ row[key[w]].status = "absent" /\ ran[key[w]] = 0
        /\ base[w].dup = prevented[key[w]] /\ key[w] \notin dlq
    BY <1>f, <1>i, <2>1 DEF Hand
  <2>3. row'[key[w]].status = "running"
    BY <2>1, UpsertTables
  <2>4. Hand(w)'
    BY <2>1, <2>2, <2>3 DEF Hand
  <2>5. Larger(0, base[w].dup) = prevented'[key[w]]
    BY <1>f, <1>r, <2>1, <2>2
  <2>6. SerialInv'
    BY <2>1, <2>2, <2>4, <2>5, UpsertSerial
  <2>7. CStep
    <3>1. /\ [k \in Keys |-> row'[k].status]
               = [[k \in Keys |-> row[k].status] EXCEPT ![key[w]] = "running"]
          /\ dlq' = dlq
      BY <2>1, UpsertTables
    <3>2. QED BY <1>f, <2>1, <2>2, <3>1, ContractUpsert
  <2>8. QED BY <2>6, <2>7
<1>8. CASE BeginAttempt(w) \/ CheckBeforeWork(w) \/ CheckAfterWork(w)
  <2>1. /\ UNCHANGED <<tables, key, seen, attempt, crashes, ran, prevented>>
        /\ \/ pc[w] = "begin" /\ pc'[w] = "progress1_read"
           \/ pc[w] = "check1" /\ pc'[w] = "work"
           \/ pc[w] = "check2" /\ pc'[w] = "history"
           \/ /\ pc[w] \in {"begin", "check1", "check2"} /\ pc'[w] = "history"
              /\ outcome'[w] = "cancelled"
    BY <1>8, <1>f DEF BeginAttempt, CheckBeforeWork, CheckAfterWork, Checkpoint, Goto
  <2>2. Hand(w)'
    BY <1>i, <2>1 DEF Hand, tables
  <2>3. QED BY <2>1, <2>2, QuietSerial DEF tables
<1>9. CASE UpdateProgress(w)
  <2>1. /\ Upsert(w, "running", 0, FALSE, 0, FALSE)
        /\ \/ pc[w] = "progress1_write" /\ pc'[w] = "check1"
           \/ pc[w] = "progress2_write" /\ pc'[w] = "check2"
        /\ UNCHANGED <<key, attempt, crashes, ran, prevented>>
    BY <1>9, <1>f DEF UpdateProgress, Goto
  <2>2. row'[key[w]].status = "running"
    BY <2>1, UpsertTables
  <2>3. /\ row[key[w]].status = "running" /\ base[w].dup = prevented[key[w]]
        /\ key[w] \notin dlq
    BY <1>f, <1>i, <2>1 DEF Hand
  <2>4. Hand(w)'
    BY <1>i, <2>1, <2>2 DEF Hand
  <2>5. Larger(0, base[w].dup) = prevented'[key[w]]
    BY <1>f, <1>r, <2>1, <2>3
  <2>6. SerialInv'
    BY <2>1, <2>3, <2>4, <2>5, UpsertSerial
  <2>7. CStep
    BY <2>1, <2>3, UpsertStutter
  <2>8. QED BY <2>6, <2>7
<1>10. CASE Work(w)
  <2>1. /\ pc[w] = "work" /\ pc'[w] \in {"progress2_read", "history"}
        /\ ran' = [ran EXCEPT ![key[w]] = IF attempt[w] = 1 THEN @ + 1 ELSE @]
        /\ UNCHANGED <<tables, key, seen, attempt, crashes, prevented>>
    BY <1>10, <1>f DEF Work, Goto
  <2>2. /\ row[key[w]].status = "running"
        /\ attempt[w] = 1 => ran[key[w]] = 0
        /\ attempt[w] # 1 => ran[key[w]] = 1
    BY <1>f, <1>i, <2>1 DEF Hand
  <2>3. ran'[key[w]] = 1 /\ \A k \in Keys : k # key[w] => ran'[k] = ran[k]
    BY <1>f, <2>1, <2>2
  <2>4. Hand(w)'
    BY <1>i, <2>1, <2>3 DEF Hand, tables
  <2>5. Settled'
    BY <1>i, <2>1, <2>2, <2>3 DEF Settled, tables
  <2>6. NoneLost'
    BY <2>1 DEF SerialInv, NoneLost, tables
  <2>7. CStep
    <3>1. CASE attempt[w] = 1
      <4>1. ran' = [ran EXCEPT ![key[w]] = 1]
        BY <1>f, <2>1, <2>2, <3>1
      <4>2. Contract!Work(key[w])
        BY <1>f, <2>1, <2>2, <3>1, <4>1 DEF Contract!Work, tables
      <4>3. QED BY <1>f, <4>2, ContractStep
    <3>2. CASE attempt[w] # 1
      <4>1. ran' = ran
        BY <1>f, <2>1, <3>2
      <4>2. QED BY <2>1, <4>1, TablesStutter DEF tables
    <3>3. QED BY <3>1, <3>2
  <2>8. QED BY <2>4, <2>5, <2>6, <2>7 DEF SerialInv
<1>11. CASE RecordHistory(w)
  <2>1. /\ pc[w] = "history" /\ pc'[w] = "record_read"
        /\ UNCHANGED <<tables, key, seen, attempt, outcome, crashes, ran, prevented>>
    BY <1>11, <1>f DEF RecordHistory, Goto
  <2>2. Hand(w)'
    BY <1>i, <2>1 DEF Hand, tables
  <2>3. QED BY <2>1, <2>2, QuietSerial DEF tables
<1>12. CASE RecordOutcome(w)
  <2> DEFINE status == IF outcome[w] = "retry_scheduled" THEN "running"
                       ELSE outcome[w]
  <2>1. /\ pc[w] = "record_write" /\ pc'[w] = AfterOutcome[outcome[w]]
        /\ Upsert(w, status, attempt[w], outcome[w] = "failed", 0, FALSE)
        /\ UNCHANGED <<key, attempt, outcome, crashes, ran, prevented>>
    BY <1>12, <1>f DEF RecordOutcome, Goto
  <2>2. outcome[w] \in {"completed", "failed", "cancelled", "retry_scheduled"}
    BY <1>f DEF Outcomes, Terminal
  <2>3. /\ outcome[w] = "retry_scheduled" <=> pc'[w] = "sleep"
        /\ outcome[w] = "failed" <=> pc'[w] = "dead_letter"
        /\ outcome[w] \in {"completed", "cancelled"} <=> pc'[w] = "finish"
        /\ pc'[w] \in {"sleep", "dead_letter", "finish"}
    BY <2>1, <2>2 DEF AfterOutcome
  <2>4. /\ row[key[w]].status = "running" /\ base[w].dup = prevented[key[w]]
        /\ key[w] \notin dlq
        /\ outcome[w] # "cancelled" => ran[key[w]] = 1
    BY <1>f, <1>i, <2>1 DEF Hand
  <2>5. row'[key[w]].status = status
    BY <2>1, UpsertTables
  <2>6. /\ outcome[w] = "retry_scheduled" => status = "running"
        /\ outcome[w] # "retry_scheduled" => status = outcome[w]
    OBVIOUS
  <2>7. Hand(w)'
    <3> HIDE DEF status
    <3>1. QED BY <1>i, <2>1, <2>2, <2>3, <2>4, <2>5, <2>6 DEF Hand, Terminal
  <2>8. Larger(0, base[w].dup) = prevented'[key[w]]
    BY <1>f, <1>r, <2>1, <2>4
  <2>9. /\ status # "absent"
        /\ status = "running" => pc'[w] = "sleep"
        /\ status = "failed" => pc'[w] = "dead_letter"
    BY <2>2, <2>3
  <2>10. SerialInv'
    <3> HIDE DEF status
    <3>1. QED BY <2>1, <2>4, <2>7, <2>8, <2>9, UpsertSerial
  <2>11. CStep
    <3>1. CASE outcome[w] = "retry_scheduled"
      BY <2>1, <2>4, <3>1, UpsertStutter
    <3>2. CASE outcome[w] # "retry_scheduled"
      <4>1. /\ [k \in Keys |-> row'[k].status]
                 = [[k \in Keys |-> row[k].status] EXCEPT ![key[w]] = outcome[w]]
            /\ dlq' = dlq
        BY <2>1, <3>2, UpsertTables
      <4>2. outcome[w] \in {"completed", "failed", "cancelled"}
        BY <2>2, <3>2
      <4>3. QED BY <1>f, <2>1, <2>4, <4>1, <4>2, ContractUpsert
    <3>3. QED BY <3>1, <3>2
  <2>12. QED BY <2>10, <2>11
<1>13. CASE Wake(w)
  <2>1. /\ pc[w] = "sleep" /\ pc'[w] = "begin" /\ attempt'[w] = attempt[w] + 1
        /\ UNCHANGED <<tables, key, seen, outcome, crashes, ran, prevented>>
    BY <1>13, <1>f DEF Wake, Goto
  <2>2. Hand(w)'
    BY <1>f, <1>i, <2>1 DEF Hand, tables
  <2>3. QED BY <2>1, <2>2, QuietSerial DEF tables
<1>14. CASE DeadLetter(w)
  <2>1. /\ pc[w] = "dead_letter" /\ pc'[w] = "finish" /\ dlq' = dlq \cup {key[w]}
        /\ UNCHANGED <<row, key, seen, attempt, outcome, crashes, ran, prevented>>
    BY <1>14, <1>f DEF DeadLetter, Goto
  <2>2. row[key[w]].status = "failed"
    BY <1>i, <2>1 DEF Hand
  <2>3. Hand(w)'
    BY <2>1, <2>2 DEF Hand, Terminal
  <2>4. Settled'
    BY <1>i, <2>1, <2>2 DEF Settled
  <2>5. NoneLost'
    BY <2>1 DEF SerialInv, NoneLost
  <2>6. Contract!SetAside(key[w])
    BY <1>f, <2>1, <2>2 DEF Contract!SetAside
  <2>7. CStep
    BY <1>f, <2>6, ContractStep
  <2>8. QED BY <2>3, <2>4, <2>5, <2>7 DEF SerialInv
<1>15. CASE Finish(w) \/ Crash(w)
  <2>1. /\ pc'[w] = "idle" /\ UNCHANGED <<tables, ran, prevented>>
        /\ Finish(w) => pc[w] = "finish" /\ crashes' = crashes
        /\ Crash(w) => crashes' = crashes + 1
    BY <1>15, <1>f DEF Finish, Crash, Reset, Goto
  <2>2. crashes \in Nat
    BY DEF IndType, TypeOK
  <2>3. /\ crashes' = 0 => crashes = 0
        /\ crashes' = 0 => pc[w] = "finish"
    BY <1>15, <2>1, <2>2
  <2>4. Hand(w)'
    BY <2>1 DEF Hand
  <2>5. QED BY <2>1, <2>3, <2>4, QuietSerial DEF tables
<1>16. CASE Signal(w)
  <2>1. UNCHANGED <<dlq, crashes, ran, prevented>>
    BY <1>16 DEF Signal
  <2>2. CASE row[key[w]].status = "absent"
    <3>1. row' = row /\ pc'[w] = "idle"
      BY <1>16, <1>f, <2>2 DEF Signal, Reset, Goto
    <3>2. Hand(w)'
      BY <3>1 DEF Hand
    <3>3. pc[w] \notin Running /\ pc[w] # "dead_letter"
      BY <1>i, <2>2 DEF Hand
    <3>4. QED BY <2>1, <3>1, <3>2, <3>3, QuietSerial
  <2>3. CASE row[key[w]].status # "absent"
    <3>1. /\ row' = [row EXCEPT ![key[w]].shutdown = TRUE]
          /\ UNCHANGED <<pc, key, seen, base, attempt, outcome>>
      BY <1>16, <2>3 DEF Signal
    <3>2. \A k \in Keys : row'[k].status = row[k].status /\ row'[k].dup = row[k].dup
      BY <1>f, <3>1 DEF Rows
    <3>3. Hand(w)'
      BY <1>f, <1>i, <2>1, <3>1, <3>2 DEF Hand
    <3>4. Settled' /\ NoneLost'
      BY <1>i, <2>1, <3>1, <3>2 DEF Settled, SerialInv, NoneLost
    <3>5. [k \in Keys |-> row'[k].status] = [k \in Keys |-> row[k].status]
      BY <3>2
    <3>6. CStep
      BY <2>1, <3>5 DEF CStep, Contract!vars
    <3>7. QED BY <3>3, <3>4, <3>6 DEF SerialInv
  <2>4. QED BY <2>2, <2>3
<1>17. CASE UNCHANGED vars
  <2>1. UNCHANGED <<tables, local, crashes, ran, prevented>>
    BY <1>17 DEF vars
  <2>2. Hand(w)' /\ Settled' /\ NoneLost'
    BY <1>i, <2>1 DEF Hand, Settled, SerialInv, NoneLost, tables, local
  <2>3. QED BY <2>1, <2>2, TablesStutter DEF SerialInv, tables
<1>18. QED
  BY <1>1, <1>2, <1>3, <1>4, <1>5, <1>6, <1>7, <1>8, <1>9, <1>10, <1>11, <1>12,
     <1>13, <1>14, <1>15, <1>16, <1>17 DEF Next, Step

LEMMA InitSerial ==
  ASSUME Serial, Init PROVE SerialInv /\ Contract!Init
<1>1. Settled
  BY DEF Init, Settled, Absent
<1>2. NoneLost
  BY DEF Init, NoneLost, Absent
<1>3. \A w \in Workers : Hand(w)
  BY IdleHand DEF Init
<1>4. Contract!Init
  BY DEF Init, Contract!Init, Absent
<1>5. QED BY <1>1, <1>2, <1>3, <1>4 DEF SerialInv

-----------------------------------------------------------------------------
(* The theorems *)

LEMMA SerialNext ==
  ASSUME Serial, IndType, RunInv, HistInv, SerialInv, [Next]_vars
  PROVE  SerialInv' /\ CStep
<1>1. PICK w : Workers = {w}
  BY DEF Serial
<1>2. w \in Workers
  BY <1>1
<1>3. QED BY <1>1, <1>2, SerialStep

LEMMA SerialAlways ==
  ASSUME Serial PROVE Spec => [](IndType /\ RunInv /\ HistInv /\ SerialInv)
<1>1. Init => SerialInv
  BY InitSerial
<1>2. IndType /\ RunInv /\ HistInv /\ SerialInv /\ [Next]_vars => SerialInv'
  BY SerialNext
<1>3. QED BY <1>1, <1>2, AlwaysIndType, AlwaysRunInv, AlwaysHistInv, PTL DEF Spec

\* One worker counts every duplicate it answers: the row that PreventDuplicate
\* writes back is still the row that Lookup read, so no count is overwritten.
THEOREM DuplicatesAreCounted ==
  ASSUME Serial PROVE Spec => []DuplicatesCounted
<1>1. SerialInv => DuplicatesCounted
  BY DEF SerialInv, Settled, DuplicatesCounted
<1>2. QED BY <1>1, SerialAlways, PTL

\* One worker that is not killed leaves nothing behind: a row that says running
\* has a run in hand, and a row that says failed reaches the dead letters
\* before the run returns.
THEOREM NothingStaysBehind ==
  ASSUME Serial PROVE Spec => []NothingLeftBehind
<1>1. IndType /\ SerialInv => NothingLeftBehind
  <2> SUFFICES ASSUME IndType, SerialInv, Quiet, crashes = 0
               PROVE  /\ \A k \in Keys : row[k].status # "running"
                      /\ dlq = {k \in Keys : row[k].status = "failed"}
    BY DEF NothingLeftBehind
  <2>1. \A w \in Workers : pc[w] \notin Running /\ pc[w] # "dead_letter"
    BY DEF Quiet, Running, InLoop, Trying, InstalledPcs
  <2>2. \A k \in Keys : /\ row[k].status # "running"
                        /\ row[k].status = "failed" => k \in dlq
                        /\ k \in dlq => row[k].status = "failed"
    BY <2>1 DEF SerialInv, NoneLost, Settled
  <2>3. dlq \subseteq Keys
    BY DEF IndType, TypeOK
  <2>4. QED BY <2>2, <2>3
<1>2. QED BY <1>1, SerialAlways, PTL

\* One worker implements the contract of the queue: a key's work is begun by
\* one run at most, an ended run stays as it ended, and a dead letter is the
\* trace of a failed run, whatever duplicates, signals and crashes happen.
THEOREM OneWorkerImplementsContract ==
  ASSUME Serial PROVE Spec => ContractSpec
<1>1. Init => Contract!Init
  BY InitSerial
<1>2. IndType /\ RunInv /\ HistInv /\ SerialInv /\ [Next]_vars
        => [Contract!Next]_(Contract!vars)
  BY SerialNext DEF CStep
<1>3. QED BY <1>1, <1>2, SerialAlways, PTL DEF Spec, ContractSpec, Contract!Spec

=============================================================================
