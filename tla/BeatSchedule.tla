---------------------------- MODULE BeatSchedule ----------------------------
(***************************************************************************)
(* Who asks for queue tasks: Celery beat, which sends each entry of the    *)
(* beat_schedule of create_celery_app once a day, and users, whose         *)
(* requests dispatch_discovery and dispatch_export send.  A request is     *)
(* known to the runner by its idempotency key; beat gives none, so that    *)
(* the task computes it from its payload.                                  *)
(***************************************************************************)
EXTENDS QueueTask

CONSTANTS Entries,   \* entries of beat_schedule that are configured
          Arguments, \* Arguments[e]: the payload the kwargs of entry e produce
          Wanted,    \* payloads users ask for
          LastDay    \* bound: days that pass

VARIABLES day,       \* days begun
          due        \* entries whose occurrence of the day is still to be sent

beatVars == <<vars, day, due>>

\* generate_idempotency_key: the hash of task name and payload, no more.
KeyOf(task, payload) == <<task, payload>>

\* The keys the tasks compute.  A payload names neither the caller nor the day.
SummaryKey(payload) == KeyOf("send_daily_summary", payload)
ExportKey(payload) == KeyOf("export_data_warehouse", payload)
CleanupKey(payload) == KeyOf("enforce_data_retention", payload)

BeatKey(e) ==
  CASE e = "daily-summary" -> SummaryKey(Arguments[e])
    [] e = "warehouse-export" -> ExportKey(Arguments[e])
    [] e = "data-retention-cleanup" -> CleanupKey(Arguments[e])

BeatInit == Init /\ day = 0 /\ due = {}

NewDay ==
  /\ day < LastDay
  /\ due = {}
  /\ day' = day + 1
  /\ due' = Entries
  /\ UNCHANGED vars

Occurrence(e) ==
  /\ e \in due
  /\ Enqueue(BeatKey(e))
  /\ due' = due \ {e}
  /\ UNCHANGED day

\* A user's request.  With the task queue disabled the web process runs the
\* task itself: it is then one of the workers, and takes the request at once.
DispatchExport(payload) == Enqueue(ExportKey(payload)) /\ UNCHANGED <<day, due>>

DispatchDiscovery(payload) ==
  Enqueue(KeyOf("discover_opportunities", payload)) /\ UNCHANGED <<day, due>>

BeatNext ==
  \/ NewDay
  \/ \E e \in Entries : Occurrence(e)
  \/ \E p \in Wanted : DispatchExport(p) \/ DispatchDiscovery(p)
  \/ (\E w \in Workers : Step(w)) /\ UNCHANGED <<day, due>>

BeatSpec == BeatInit /\ [][BeatNext]_beatVars

\* docs/ENV_VARS.md: the summary, the export and the cleanup run at their hour
\* of every day.  Once a day's occurrences are handled, each entry's work has
\* been run for each day.
EveryOccurrenceRuns ==
  Quiet /\ due = {} /\ (\A k \in Keys : queue[k] = 0) =>
    \A e \in Entries : ran[BeatKey(e)] >= day
=============================================================================
