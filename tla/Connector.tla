----------------------------- MODULE Connector -----------------------------
(***************************************************************************)
(* One portal connector (_BasePortalConnector) serving concurrent calls of *)
(* fetch_result_async: the result cache, the circuit breaker, the token    *)
(* bucket, retries with backoff and pagination.  The coroutines share the  *)
(* connector's attributes and interleave at awaits only: the answer of the *)
(* upstream service and the sleep before a retry.  A tick of the clock is  *)
(* the unit of the breaker's recovery timeout and of the cache's TTL.      *)
(***************************************************************************)
EXTENDS Integers, FiniteSets

CONSTANTS Requests, \* calls of fetch_result_async
          Keys,     \* cache keys: keyword lists
          Settings, \* configurations of the connector
          TTL,      \* cache_ttl
          MaxTime   \* bound: ticks, besides those slept by throttled calls

\* throttled: the connector takes a token for each HTTP call too, not only for
\* each request.  capacity and rate are rate_limit_config: the burst, and the
\* tokens refilled in a tick; pages bounds the pages of an upstream result.
SettingsType ==
  [throttled : BOOLEAN, capacity : Nat \ {0}, rate : Nat, retries : Nat,
   threshold : Nat \ {0}, recovery : Nat, pages : Nat \ {0}]

ASSUME ConnectorAssumption ==
  /\ Settings \subseteq SettingsType
  /\ TTL \in Nat /\ MaxTime \in Nat
  /\ IsFiniteSet(Requests)

VARIABLES config,   \* the connector's settings
          now,
          conn,     \* the connector's attributes and metrics
          cache,    \* cache[k]: when the cached result expires, or None
          req,      \* the local state of each call
          failedAt  \* ghost: time of the last failed call

vars == <<config, now, conn, cache, req, failedAt>>

None == -1
Circuits == {"closed", "open", "half-open"}
Degraded == {"circuit_open", "rate_limit_exceeded", "connector_error"}
Answers == Degraded \cup {"none", "cached", "remote"}

Connectors ==
  [circuit : Circuits, openedAt : Nat \cup {None}, tokens : 0..config.capacity,
   consecutive : Nat, requests : Nat, successful : Nat, failed : Nat,
   retries : Nat, short : Nat, limited : Nat]

Calls ==
  [phase : {"new", "calling", "backoff", "done"}, key : Keys,
   page : 0..config.pages, attempt : 0..(config.retries + 1), answer : Answers]

TypeOK ==
  /\ config \in Settings
  /\ now \in Nat
  /\ conn \in Connectors
  /\ cache \in [Keys -> Nat \cup {None}]
  /\ req \in [Requests -> Calls]
  /\ failedAt \in Nat \cup {None}

NewCall(k) == [phase |-> "new", key |-> k, page |-> 0, attempt |-> 0,
               answer |-> "none"]

Fresh == [circuit |-> "closed", openedAt |-> None, tokens |-> config.capacity,
          consecutive |-> 0, requests |-> 0, successful |-> 0, failed |-> 0,
          retries |-> 0, short |-> 0, limited |-> 0]

Init ==
  /\ config \in Settings
  /\ now = 0
  /\ conn = Fresh
  /\ cache = [k \in Keys |-> None]
  /\ req \in [Requests -> {NewCall(k) : k \in Keys}]
  /\ failedAt = None

-----------------------------------------------------------------------------
\* The breaker and the bucket, as functions of the connector's attributes c.

\* _refresh_circuit_state
Refreshed(c) ==
  IF c.circuit = "open" /\ now - c.openedAt >= config.recovery
    THEN [c EXCEPT !.circuit = "half-open"] ELSE c

SucceededKeepsOpening(c) ==
  [c EXCEPT !.successful = @ + 1, !.consecutive = 0, !.circuit = "closed"]

\* _record_success
Succeeded(c) ==
  [c EXCEPT !.successful = @ + 1, !.consecutive = 0,
            !.openedAt = None, !.circuit = "closed"]

FailedFirstOpeningOnly(c) ==
  LET f == [c EXCEPT !.failed = @ + 1, !.consecutive = @ + 1] IN
  IF c.circuit # "open" /\ f.consecutive >= config.threshold
    THEN [f EXCEPT !.openedAt = now, !.circuit = "open"] ELSE f

\* _record_failure: a failure that finds the circuit open stamps it again.
Failed(c) ==
  LET f == [c EXCEPT !.failed = @ + 1, !.consecutive = @ + 1] IN
  IF f.circuit = "half-open" \/ f.consecutive >= config.threshold
    THEN [f EXCEPT !.openedAt = now, !.circuit = "open"] ELSE f

ConsumedUnpaid(c) == c

\* TokenBucketRateLimiter.consume, when a token is available
Consumed(c) == [c EXCEPT !.tokens = @ - 1]

\* TokenBucketRateLimiter._refill, applied as the time passes: refilling by
\* the elapsed time when the bucket is next used gives the same tokens.
Refilled(c) ==
  [c EXCEPT !.tokens = IF @ + config.rate < config.capacity
                              THEN @ + config.rate ELSE config.capacity]

-----------------------------------------------------------------------------
\* Endings of a call.

Answered(r, answer) ==
  req' = [req EXCEPT ![r].phase = "done", ![r].answer = answer]

\* _build_degraded_result reads the circuit once more.
Degrade(r, c, reason) ==
  /\ conn' = Refreshed(c)
  /\ Answered(r, reason)
  /\ UNCHANGED <<now, cache>>

RecordFailure(r, c) ==
  /\ Degrade(r, Failed(c), "connector_error")
  /\ failedAt' = now

-----------------------------------------------------------------------------
\* One upstream call.  A throttled connector takes a token for it; without
\* one, _throttle_remote_request sleeps until there is one and goes on without
\* taking it, or raises when there will never be one.  The client is one that
\* was given to the connector: the sleep is that of the whole event loop.
\* (Without one the call and its throttle run in a thread of their own.)

Call(r, page, attempt) ==
  req' = [req EXCEPT ![r].phase = "calling", ![r].page = page,
                     ![r].attempt = attempt]

Send(r, c, page, attempt) ==
  LET counted == [c EXCEPT !.requests = @ + 1] IN
  \/ /\ ~config.throttled
     /\ conn' = counted
     /\ Call(r, page, attempt)
     /\ UNCHANGED <<now, failedAt>>
  \/ /\ config.throttled /\ c.tokens >= 1
     /\ conn' = Consumed(counted)
     /\ Call(r, page, attempt)
     /\ UNCHANGED <<now, failedAt>>
  \/ /\ config.throttled /\ c.tokens < 1 /\ config.rate > 0
     /\ now' = now + 1
     /\ conn' = [Refilled(counted) EXCEPT !.limited = @ + 1]
     /\ Call(r, page, attempt)
     /\ UNCHANGED failedAt
  \/ /\ config.throttled /\ c.tokens < 1 /\ config.rate = 0
     /\ conn' = Refreshed(Failed([counted EXCEPT !.limited = @ + 1]))
     /\ Answered(r, "connector_error")
     /\ failedAt' = now
     /\ UNCHANGED now

CacheHit(k) == cache[k] # None /\ now <= cache[k]

\* fetch_result_async from its call to its first await.
Begin(r) ==
  LET k == req[r].key
      c == Refreshed(conn)
      evicted == [cache EXCEPT ![k] = IF CacheHit(k) THEN @ ELSE None]
  IN
  /\ req[r].phase = "new"
  /\ \/ /\ CacheHit(k)
        /\ Answered(r, "cached")
        /\ UNCHANGED <<now, conn, cache, failedAt>>
     \/ /\ ~CacheHit(k) /\ c.circuit = "open"
        /\ conn' = [c EXCEPT !.short = @ + 1]
        /\ Answered(r, "circuit_open")
        /\ cache' = evicted
        /\ UNCHANGED <<now, failedAt>>
     \/ /\ ~CacheHit(k) /\ c.circuit # "open" /\ c.tokens < 1
        /\ conn' = [c EXCEPT !.limited = @ + 1]
        /\ Answered(r, "rate_limit_exceeded")
        /\ cache' = evicted
        /\ UNCHANGED <<now, failedAt>>
     \/ /\ ~CacheHit(k) /\ c.circuit # "open" /\ c.tokens >= 1
        /\ cache' = evicted
        /\ \/ Send(r, Consumed(c), 1, 1)
           \/ /\ conn' = Consumed(c)    \* its credentials do not resolve
              /\ Answered(r, "connector_error")
              /\ UNCHANGED <<now, failedAt>>

-----------------------------------------------------------------------------
\* The upstream service answers a call.

MorePages(r) ==
  /\ req[r].phase = "calling"
  /\ req[r].page < config.pages
  /\ Send(r, Succeeded(conn), req[r].page + 1, 1)
  /\ UNCHANGED cache

LastPageUncounted(r) ==
  /\ req[r].phase = "calling"
  /\ cache' = [cache EXCEPT ![req[r].key] = now + TTL]
  /\ Answered(r, "remote")
  /\ UNCHANGED <<now, conn, failedAt>>

LastPage(r) ==
  /\ req[r].phase = "calling"
  /\ conn' = Succeeded(conn)
  /\ cache' = [cache EXCEPT ![req[r].key] = now + TTL]
  /\ Answered(r, "remote")
  /\ UNCHANGED <<now, failedAt>>

\* The call succeeded for the retry loop, then parsing the page raises.
Malformed(r) ==
  /\ req[r].phase = "calling"
  /\ Degrade(r, Succeeded(conn), "connector_error")
  /\ UNCHANGED failedAt

\* A retryable failure with attempts left.  A 429 answered to a throttled
\* connector is one too, and is counted as rate limited before its sleep.
TransientFailure(r) ==
  /\ req[r].phase = "calling"
  /\ req[r].attempt <= config.retries
  /\ \E told \in IF config.throttled THEN {0, 1} ELSE {0} :
       conn' = [conn EXCEPT !.retries = @ + 1, !.limited = @ + told]
  /\ req' = [req EXCEPT ![r].phase = "backoff"]
  /\ UNCHANGED <<now, cache, failedAt>>

\* A failure that is not retryable, or the last attempt's.
FinalFailure(r) ==
  /\ req[r].phase = "calling"
  /\ RecordFailure(r, conn)

RetryWhenClosed(r) ==
  /\ req[r].phase = "backoff"
  /\ conn.circuit = "closed"
  /\ Send(r, conn, req[r].page, req[r].attempt + 1)
  /\ UNCHANGED cache

\* The backoff sleep is over; the circuit is not looked at again.
Retry(r) ==
  /\ req[r].phase = "backoff"
  /\ Send(r, conn, req[r].page, req[r].attempt + 1)
  /\ UNCHANGED cache

\* check_health and get_failure_metrics.
CheckHealth ==
  /\ conn' = Refreshed(conn)
  /\ UNCHANGED <<now, cache, req, failedAt>>

\* invalidate_cache
Invalidate(k) ==
  /\ cache' = [cache EXCEPT ![k] = None]
  /\ UNCHANGED <<now, conn, req, failedAt>>

Tick ==
  /\ now < MaxTime
  /\ now' = now + 1
  /\ conn' = Refilled(conn)
  /\ UNCHANGED <<cache, req, failedAt>>

Answer(r) ==
  \/ MorePages(r) \/ LastPage(r) \/ Malformed(r)
  \/ TransientFailure(r) \/ FinalFailure(r)

Progress(r) == Begin(r) \/ Answer(r) \/ Retry(r)

Next ==
  /\ \/ \E r \in Requests : Progress(r)
     \/ \E k \in Keys : Invalidate(k)
     \/ CheckHealth
     \/ Tick
  /\ UNCHANGED config

Spec == Init /\ [][Next]_vars

\* The event loop runs every call that can go on, and the HTTP clients time
\* out, so each call is answered in the end.  The clock runs.
FairSpec ==
  /\ Spec
  /\ \A r \in Requests : WF_vars(Progress(r) /\ UNCHANGED config)
  /\ WF_vars(Tick /\ UNCHANGED config)

-----------------------------------------------------------------------------
InFlight == {r \in Requests : req[r].phase = "calling"}

\* Every upstream call counted in requests was a success, a final failure, a
\* failure that is retried, or is still awaited: the metrics that
\* get_failure_metrics reports add up however the calls interleave.
CallLedger ==
  conn.requests =
    conn.successful + conn.failed + conn.retries + Cardinality(InFlight)

\* The breaker's three records agree: the circuit is closed exactly when it
\* has no opening time, and exactly when the failures in a row are below the
\* threshold, whatever calls begun earlier report late.
CircuitMatchesFailures ==
  /\ conn.circuit = "closed" <=> conn.openedAt = None
  /\ conn.circuit = "closed" <=> conn.consecutive < config.threshold

\* No more requests start upstream than the bucket has had tokens for.
Started == {r \in Requests : req[r].page > 0}
RequestsWithinQuota ==
  Cardinality(Started) + conn.tokens <= config.capacity + config.rate * now

\* After threshold failures in a row no request starts upstream until the
\* recovery timeout has passed since the latest of them, also when that was
\* reported by a call begun before the circuit opened.
BreakerHolds ==
  [][\A r \in Requests :
       req[r].page = 0 /\ req'[r].page = 1 =>
         \/ conn.consecutive < config.threshold
         \/ now - failedAt >= config.recovery]_vars

\* Every call of fetch_result_async returns a result: a failing, limited or
\* short-circuited connector degrades, it does not hang.
RequestsAnswered == \A r \in Requests : <>(req[r].phase = "done")
=============================================================================
