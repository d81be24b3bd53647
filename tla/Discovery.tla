----------------------------- MODULE Discovery -----------------------------
(***************************************************************************)
(* FundingBot.run_discovery_async: ConnectorBatchScheduler fetches from    *)
(* the connectors in batches, each result is stored in the table           *)
(* connector_result_cache, a failed connector falls back to that table or  *)
(* to its demo data, and deduplicate_async persists the new opportunities. *)
(*                                                                         *)
(* Runs are in processes of their own (a queue worker, the CLI, a web      *)
(* request), each with an SQLite connection: a read is a step, a write and *)
(* its commit are a step, and a transaction holds the write lock from its  *)
(* first INSERT.  What else commits on a queued run's connection, its      *)
(* progress callback and the shutdown handler of a signal, ends that       *)
(* transaction early.  A connector's result is abstracted to the version   *)
(* of its upstream data: version 0 stands for the built-in demo data.      *)
(***************************************************************************)
EXTENDS Naturals, Sequences, FiniteSets

CONSTANTS Runs,          \* processes that run discovery
          Order,         \* the active connectors, in order; one may repeat
          Untrusted,     \* connectors outside trusted_sources
          BatchSize,     \* FUNDING_BOT_CONNECTOR_BATCH_SIZE
          Modes,         \* values PORTAL_FALLBACK_MODE takes
          FromQueue,     \* runs of the queue: progress and signals commit
          Dry,           \* runs with dry_run
          LegacyRows,    \* connectors whose stored row has an old schema
          MaxVersion,    \* bound: versions of a connector's upstream data
          MaxStarts,     \* bound: discoveries started
          MaxSignals,    \* bound: shutdown signals within a transaction
          MaxCrashes     \* bound: processes killed in a discovery

Connectors == {Order[i] : i \in DOMAIN Order}
Positions == DOMAIN Order

ASSUME DiscoveryAssumption ==
  /\ Order \in Seq(Connectors) /\ Order # <<>>
  /\ BatchSize \in Nat \ {0} /\ MaxVersion \in Nat \ {0}
  /\ Modes \subseteq {"cache-first", "cache-only", "default-only", "disabled"}
  /\ Modes # {} /\ LegacyRows \subseteq Connectors
  /\ "free" \notin Runs

VARIABLES
  upstream,  \* upstream[c]: version of the data connector c's service has
  table,     \* table[c]: row of connector_result_cache
  opps,      \* rows of opportunities, committed
  pending,   \* pending[p]: opportunities inserted and not yet committed
  lock,      \* the run that holds the database's write lock, or "free"
  run,       \* the local state of each run
  starts, signals, crashes

vars == <<upstream, table, opps, pending, lock, run, starts, signals, crashes>>

Versions == 0..MaxVersion
Items == Connectors \X Versions      \* an opportunity, by its signature
NoRow == [status |-> "none", version |-> 0, legacy |-> FALSE]
Rows == [status : {"none", "remote", "cached", "default"},
         version : Versions, legacy : BOOLEAN]
Results == [kind : {"awaited", "remote", "failed"}, version : Versions]
Awaited == [kind |-> "awaited", version |-> 0]
Ended == {"idle", "done", "raised", "collided"}
Phases ==
  Ended \cup {"fetch", "handle", "upgrade", "fallback", "persist", "insert"}

TypeOK ==
  /\ upstream \in [Connectors -> 1..MaxVersion]
  /\ table \in [Connectors -> Rows]
  /\ opps \subseteq Items
  /\ pending \in [Runs -> SUBSET Items]
  /\ lock \in Runs \cup {"free"}
  /\ run \in [Runs -> [phase : Phases, mode : Modes, at : Nat \ {0},
                       result : [Connectors -> Results], loaded : Rows,
                       candidates : Seq(Items), found : SUBSET Items,
                       existing : BOOLEAN, released : BOOLEAN]]

\* existing: what the SELECT for a candidate found.  released (ghost): a signal
\* has committed the transaction since.
Idle(mode) ==
  [phase |-> "idle", mode |-> mode, at |-> 1,
   result |-> [c \in Connectors |-> Awaited], loaded |-> NoRow,
   candidates |-> <<>>, found |-> {}, existing |-> FALSE, released |-> FALSE]

Init ==
  /\ upstream = [c \in Connectors |-> 1]
  /\ table = [c \in Connectors |->
                IF c \in LegacyRows
                  THEN [status |-> "remote", version |-> 1, legacy |-> TRUE]
                  ELSE NoRow]
  /\ opps = {}
  /\ pending = [p \in Runs |-> {}]
  /\ lock = "free"
  /\ run = [p \in Runs |-> Idle(CHOOSE m \in Modes : TRUE)]
  /\ starts = 0 /\ signals = 0 /\ crashes = 0

Alone == UNCHANGED <<upstream, starts, signals, crashes>>
Unlocked == lock = "free" /\ UNCHANGED lock

Start(p, mode) ==
  /\ run[p].phase \in Ended
  /\ starts < MaxStarts
  /\ starts' = starts + 1
  /\ run' = [run EXCEPT ![p] = [Idle(mode) EXCEPT !.phase = "fetch"]]
  /\ UNCHANGED <<upstream, table, opps, pending, lock, signals, crashes>>

-----------------------------------------------------------------------------
\* ConnectorBatchScheduler.submit_many

\* The unique requests: the first position of each connector.
Unique == {i \in Positions : \A j \in 1..(i - 1) : Order[j] # Order[i]}

\* The batch a unique request is in, counted from 0.
BatchOf(i) == Cardinality({j \in Unique : j < i}) \div BatchSize

\* Every request of the batches before has its result.
BatchBegun(p, i) ==
  \A j \in Unique : BatchOf(j) < BatchOf(i) =>
    run[p].result[Order[j]].kind # "awaited"

Fetched(p, c, result) ==
  /\ run[p].phase = "fetch"
  /\ run[p].result[c].kind = "awaited"
  /\ run' = [run EXCEPT ![p].result[c] = result]
  /\ UNCHANGED <<table, opps, pending, lock>>
  /\ Alone

Fetch(p) ==
  \E i \in Unique :
    /\ BatchBegun(p, i)
    /\ \E result \in {[kind |-> "remote", version |-> upstream[Order[i]]],
                     [kind |-> "failed", version |-> 0]} :
         Fetched(p, Order[i], result)

FetchOver(p) ==
  /\ run[p].phase = "fetch"
  /\ \A c \in Connectors : run[p].result[c].kind # "awaited"
  /\ run' = [run EXCEPT ![p].phase = "handle"]
  /\ UNCHANGED <<table, opps, pending, lock>>
  /\ Alone

-----------------------------------------------------------------------------
\* The results, one connector after the other.

Current(p) == Order[run[p].at]
Handles(p, kind) ==
  /\ run[p].phase = "handle"
  /\ run[p].at <= Len(Order)
  /\ run[p].result[Current(p)].kind = kind

\* The run goes on to the next connector, with candidate items cs.
Advanced(p, cs) ==
  [run EXCEPT ![p].phase = "handle", ![p].at = @ + 1, ![p].loaded = NoRow,
              ![p].candidates = @ \o cs]

StoreRow(p, c, status, version) ==
  /\ Unlocked
  /\ table' = [table EXCEPT ![c] =
       [status |-> status, version |-> version, legacy |-> FALSE]]
  /\ run' = Advanced(p, <<<<c, version>>>>)
  /\ UNCHANGED <<opps, pending>>
  /\ Alone

StoreRemote(p) ==
  LET c == Current(p)
      version == run[p].result[c].version
  IN
  /\ Handles(p, "remote")
  /\ StoreRow(p, c, "remote", version)

\* A failed connector, and a mode without the cache.
FallBackAtOnce(p) ==
  /\ Handles(p, "failed")
  /\ run[p].mode \in {"default-only", "disabled"}
  /\ run' = [run EXCEPT ![p].phase =
               IF run[p].mode = "disabled" THEN "raised" ELSE "fallback"]
  /\ UNCHANGED <<table, opps, pending, lock>>
  /\ Alone

LoadCachedSkippingEmpty(p) ==
  LET row == table[Current(p)] IN
  /\ Handles(p, "failed")
  /\ run[p].mode \in {"cache-first", "cache-only"}
  /\ run' = IF row.status = "none" THEN Advanced(p, <<>>)
            ELSE [run EXCEPT ![p].loaded = row,
                    ![p].phase = IF row.legacy THEN "upgrade" ELSE "fallback"]
  /\ UNCHANGED <<table, opps, pending, lock>>
  /\ Alone

\* _load_cached_connector_result_async: the SELECT.
LoadCached(p) ==
  LET row == table[Current(p)] IN
  /\ Handles(p, "failed")
  /\ run[p].mode \in {"cache-first", "cache-only"}
  /\ run' = IF row.status = "none" /\ run[p].mode = "cache-only"
              THEN Advanced(p, <<>>)
            ELSE [run EXCEPT ![p].loaded = row,
                    ![p].phase = IF row.legacy THEN "upgrade" ELSE "fallback"]
  /\ UNCHANGED <<table, opps, pending, lock>>
  /\ Alone

\* A row of an older schema is migrated and written back as it was read.
UpgradeRow(p) ==
  /\ run[p].phase = "upgrade"
  /\ Unlocked
  /\ table' = [table EXCEPT ![Current(p)] = [run[p].loaded EXCEPT !.legacy = FALSE]]
  /\ run' = [run EXCEPT ![p].phase = "fallback"]
  /\ UNCHANGED <<opps, pending>>
  /\ Alone

StoreFallbackAsRemote(p) ==
  LET row == run[p].loaded IN
  /\ run[p].phase = "fallback"
  /\ StoreRow(p, Current(p), "remote", row.version)

\* The fallback result, cached or demo, is stored in its turn.
StoreFallback(p) ==
  LET row == run[p].loaded IN
  /\ run[p].phase = "fallback"
  /\ StoreRow(p, Current(p), IF row.status = "none" THEN "default" ELSE "cached",
              row.version)

HandlingOver(p) ==
  /\ run[p].phase = "handle"
  /\ run[p].at > Len(Order)
  /\ run' = [run EXCEPT ![p].phase = "persist", ![p].at = 1]
  /\ UNCHANGED <<table, opps, pending, lock>>
  /\ Alone

-----------------------------------------------------------------------------
\* deduplicate_async, one candidate at a time: the INSERT of its first funnel
\* event takes the write lock, the SELECT looks for its signature, and its
\* other INSERTs follow, the opportunity's among them.

Candidate(p) == run[p].candidates[run[p].at]
IsNew(p, item) == item \notin opps \cup pending[p]
Accepts(item) == item[1] \notin Untrusted

Looked(p) ==
  /\ run[p].phase = "persist"
  /\ run[p].at <= Len(run[p].candidates)
  /\ run' = [run EXCEPT ![p].phase = "insert",
                        ![p].existing = ~IsNew(p, Candidate(p))]
  /\ UNCHANGED <<table, opps, pending>>
  /\ Alone

LookUnlocked(p) == Looked(p) /\ UNCHANGED lock

LookWaiting(p) == lock = "free" /\ lock' = p /\ Looked(p)

Look(p) == lock \in {"free", p} /\ lock' = p /\ Looked(p)

\* SIGTERM or SIGINT while the event loop awaits a statement: the handler's
\* request_task_run_shutdown commits on the connection of the transaction.
Signal(p) ==
  /\ p \in FromQueue /\ run[p].phase = "insert" /\ lock = p
  /\ signals < MaxSignals
  /\ signals' = signals + 1
  /\ opps' = opps \cup pending[p]
  /\ pending' = [pending EXCEPT ![p] = {}]
  /\ lock' = "free"
  /\ run' = [run EXCEPT ![p].released = TRUE]
  /\ UNCHANGED <<upstream, table, starts, crashes>>

\* An INSERT of p's transaction leaves the lock with p, unless the progress
\* callback of a queued run commits.
Inserted(p, items) ==
  IF p \in FromQueue
    THEN /\ opps' = opps \cup pending[p] \cup items
         /\ pending' = [pending EXCEPT ![p] = {}]
         /\ lock' = "free"
    ELSE /\ pending' = [pending EXCEPT ![p] = @ \cup items]
         /\ lock' = p
         /\ UNCHANGED opps

\* What the candidate is found to be, and the row it is to make.
Matched(p) ==
  IF ~run[p].existing /\ Accepts(Candidate(p)) THEN {Candidate(p)} ELSE {}
NewRows(p) == IF p \in Dry THEN {} ELSE Matched(p)

Insert(p) ==
  /\ run[p].phase = "insert" /\ lock \in {"free", p}
  /\ \A item \in NewRows(p) : IsNew(p, item)
  /\ Inserted(p, NewRows(p))
  /\ run' = [run EXCEPT ![p].phase = "persist", ![p].at = @ + 1,
                        ![p].found = @ \cup Matched(p),
                        ![p].existing = FALSE, ![p].released = FALSE]
  /\ UNCHANGED table
  /\ Alone

\* IntegrityError: the signature is there by now; the session rolls back.
Collide(p) ==
  /\ run[p].phase = "insert" /\ lock \in {"free", p}
  /\ \E item \in NewRows(p) : ~IsNew(p, item)
  /\ pending' = [pending EXCEPT ![p] = {}]
  /\ lock' = "free"
  /\ run' = [run EXCEPT ![p].phase = "collided"]
  /\ UNCHANGED <<table, opps>>
  /\ Alone

\* The session's end: commit, then the log entry unless dry_run.
CommitAsRollback(p) ==
  /\ run[p].phase = "persist"
  /\ run[p].at > Len(run[p].candidates)
  /\ lock \in {"free", p}
  /\ pending' = [pending EXCEPT ![p] = {}]
  /\ lock' = "free"
  /\ run' = [run EXCEPT ![p].phase = "done"]
  /\ UNCHANGED <<table, opps>>
  /\ Alone

Commit(p) ==
  /\ run[p].phase = "persist"
  /\ run[p].at > Len(run[p].candidates)
  /\ lock \in {"free", p}
  /\ opps' = opps \cup pending[p]
  /\ pending' = [pending EXCEPT ![p] = {}]
  /\ lock' = "free"
  /\ run' = [run EXCEPT ![p].phase = "done"]
  /\ UNCHANGED table
  /\ Alone

\* The process is killed: SQLite rolls its open transaction back.
Crash(p) ==
  /\ run[p].phase \notin Ended
  /\ crashes < MaxCrashes
  /\ crashes' = crashes + 1
  /\ pending' = [pending EXCEPT ![p] = {}]
  /\ lock' = IF lock = p THEN "free" ELSE lock
  /\ run' = [run EXCEPT ![p] = Idle(run[p].mode)]
  /\ UNCHANGED <<upstream, table, opps, starts, signals>>

\* The connector's service publishes new data.
Publish(c) ==
  /\ upstream[c] < MaxVersion
  /\ upstream' = [upstream EXCEPT ![c] = @ + 1]
  /\ UNCHANGED <<table, opps, pending, lock, run, starts, signals, crashes>>

Step(p) ==
  \/ Fetch(p) \/ FetchOver(p) \/ StoreRemote(p) \/ FallBackAtOnce(p)
  \/ LoadCached(p) \/ UpgradeRow(p) \/ StoreFallback(p) \/ HandlingOver(p)
  \/ Look(p) \/ Insert(p) \/ Collide(p) \/ Commit(p)

Next ==
  \/ \E p \in Runs : Step(p) \/ Signal(p) \/ Crash(p) \/ \E m \in Modes : Start(p, m)
  \/ \E c \in Connectors : Publish(c)

Spec == Init /\ [][Next]_vars

\* A live process goes on: HTTP requests time out, and one that waits for the
\* write lock polls it.
FairSpec == Spec /\ \A p \in Runs : WF_vars(Step(p))

-----------------------------------------------------------------------------
\* The INSERT of an opportunity meets no row of its signature, of this or of
\* another run, committed or about to be, because the SELECT before it is made
\* under the write lock.  Only a signal's commit between the two lets another
\* run in: then the INSERT may raise IntegrityError.
CollisionsNeedASignal ==
  \A p \in Runs :
    /\ pending[p] \cap opps = {}
    /\ pending[p] # {} => lock = p
    /\ run[p].phase = "insert" /\ ~run[p].released =>
         \A item \in NewRows(p) : IsNew(p, item)
    /\ run[p].phase = "collided" => run[p].released

\* What a run reports as new opportunities, and every candidate it does not
\* filter out, is in the table when it ends, whichever run inserted it; and a
\* run that an INSERT fails loses none it went through, that one included.
CandidatesPersisted ==
  \A p \in Runs \ Dry :
    run[p].phase \in {"done", "collided"} =>
      \A i \in DOMAIN run[p].candidates :
        LET item == run[p].candidates[i] IN
        Accepts(item) /\ (run[p].phase = "done" \/ i <= run[p].at) => item \in opps

\* In mode cache-first a failing connector never drops out of a discovery:
\* each connector contributes a result, live, cached or demo.
NoConnectorDropsOut ==
  \A p \in Runs :
    run[p].phase \in {"persist", "insert", "done"} /\ run[p].mode = "cache-first" =>
      Len(run[p].candidates) = Len(Order)

\* A row marked remote holds data its connector's service published.
RemoteRowsAreLive ==
  \A c \in Connectors :
    table[c].status = "remote" => table[c].version \in 1..upstream[c]

\* A discovery that is not killed ends.
DiscoveriesEnd ==
  \A p \in Runs : run[p].phase \notin Ended ~> run[p].phase \in Ended
=============================================================================
