-------------------------- MODULE ConnectorProofs --------------------------
(***************************************************************************)
(* The safety properties of Connector for any requests, settings, TTL and  *)
(* bounds, and those of PortalFetch for any catalogues, pages, terms,      *)
(* retries and bounds, in a part of its own.                               *)
(*                                                                         *)
(* Connector.  A step of a call r works on the connector's attributes and  *)
(* on r alone, so the invariant is stated as Local: what holds of          *)
(* attributes c at time t, the last failure being at f, with n calls in    *)
(* flight and m started.  One lemma per function of the attributes says    *)
(* how it carries Local over, and the lemmas of the steps chain them as    *)
(* the actions do.                                                         *)
(*                                                                         *)
(* PortalFetch.  A row that is not fetched yet is, among the places a      *)
(* search finds, behind the pages already read: what the service lists     *)
(* meanwhile can only push it back.                                        *)
(***************************************************************************)
EXTENDS Connector, PortalFetch, FiniteSetTheorems, WellFoundedInduction, TLAPS

-----------------------------------------------------------------------------
\* The breaker's records agree with each other and with the last failure.
Breaker(c, t, f) ==
  /\ c.circuit = "closed" <=> c.openedAt = None
  /\ c.circuit = "closed" <=> c.consecutive < config.threshold
  /\ c.circuit # "closed" => c.openedAt = f
  /\ c.circuit = "half-open" => t - f >= config.recovery

\* With n calls in flight the counters add up.
Ledger(c, n) == c.requests = c.successful + c.failed + c.retries + n

\* With n calls started the bucket has handed out no token it did not have.
Quota(c, t, n) == n + c.tokens <= config.capacity + config.rate * t

Timed(c, t, f) ==
  /\ c \in Connectors /\ t \in Nat /\ f \in Nat \cup {None}
  /\ Breaker(c, t, f)

Local(c, t, f, n, m) ==
  /\ Timed(c, t, f)
  /\ Ledger(c, n)
  /\ Quota(c, t, m)

\* The calls in flight, and those started, other than r.
Others(r) == Cardinality(InFlight \ {r})
Rest(r) == Cardinality(Started \ {r})

Bit(b) == IF b THEN 1 ELSE 0

\* A call that has left its first step has a page; a retry is within its limit.
CallsBegun ==
  \A r \in Requests :
    /\ req[r].phase \in {"calling", "backoff"} => req[r].page > 0
    /\ req[r].phase = "backoff" => req[r].attempt <= config.retries

IInv ==
  /\ TypeOK
  /\ CallsBegun
  /\ Breaker(conn, now, failedAt)
  /\ CallLedger
  /\ RequestsWithinQuota

-----------------------------------------------------------------------------
(* The settings, and the calls other than r. *)

LEMMA ConfigTyped ==
  ASSUME TypeOK
  PROVE  /\ config.throttled \in BOOLEAN
         /\ config.capacity \in Nat \ {0} /\ config.rate \in Nat
         /\ config.retries \in Nat /\ config.threshold \in Nat \ {0}
         /\ config.recovery \in Nat /\ config.pages \in Nat \ {0}
BY ConnectorAssumption DEF TypeOK, SettingsType

LEMMA OthersCounted ==
  ASSUME TypeOK, NEW r \in Requests
  PROVE  /\ Others(r) \in Nat /\ Rest(r) \in Nat
         /\ Cardinality(InFlight) = Others(r) + Bit(req[r].phase = "calling")
         /\ Cardinality(Started) = Rest(r) + Bit(req[r].page > 0)
<1>1. InFlight \subseteq Requests /\ Started \subseteq Requests
  BY DEF InFlight, Started
<1>2. /\ IsFiniteSet(InFlight) /\ IsFiniteSet(Started)
      /\ IsFiniteSet(InFlight \ {r}) /\ IsFiniteSet(Started \ {r})
  BY <1>1, ConnectorAssumption, FS_Subset
<1>3. /\ Cardinality(InFlight \ {r}) \in Nat /\ Cardinality(InFlight) \in Nat
      /\ Cardinality(Started \ {r}) \in Nat /\ Cardinality(Started) \in Nat
  BY <1>2, FS_CardinalityType
<1>4. Cardinality(InFlight) =
        Cardinality(InFlight \ {r}) + Bit(req[r].phase = "calling")
  <2>1. CASE r \in InFlight
    <3>1. Cardinality(InFlight \ {r}) = Cardinality(InFlight) - 1
      BY <1>2, <2>1, FS_RemoveElement
    <3>2. Bit(req[r].phase = "calling") = 1
      BY <2>1 DEF InFlight, Bit
    <3>3. QED BY <1>3, <3>1, <3>2
  <2>2. CASE r \notin InFlight
    <3>1. InFlight \ {r} = InFlight
      BY <2>2
    <3>2. Bit(req[r].phase = "calling") = 0
      BY <2>2 DEF InFlight, Bit
    <3>3. Cardinality(InFlight) = Cardinality(InFlight \ {r}) + 0
      BY <1>3, <3>1
    <3>4. QED BY <3>2, <3>3
  <2>3. QED BY <2>1, <2>2
<1>5. Cardinality(Started) = Cardinality(Started \ {r}) + Bit(req[r].page > 0)
  <2>1. CASE r \in Started
    <3>1. Cardinality(Started \ {r}) = Cardinality(Started) - 1
      BY <1>2, <2>1, FS_RemoveElement
    <3>2. Bit(req[r].page > 0) = 1
      BY <2>1 DEF Started, Bit
    <3>3. QED BY <1>3, <3>1, <3>2
  <2>2. CASE r \notin Started
    <3>1. Started \ {r} = Started
      BY <2>2
    <3>2. Bit(req[r].page > 0) = 0
      BY <2>2 DEF Started, Bit
    <3>3. Cardinality(Started) = Cardinality(Started \ {r}) + 0
      BY <1>3, <3>1
    <3>4. QED BY <3>2, <3>3
  <2>3. QED BY <2>1, <2>2
<1>6. QED BY <1>3, <1>4, <1>5 DEF Others, Rest

\* The invariant, seen from one call.
LEMMA Seen ==
  ASSUME IInv, NEW r \in Requests
  PROVE  Local(conn, now, failedAt,
               Others(r) + Bit(req[r].phase = "calling"), Rest(r) + Bit(req[r].page > 0))
BY OthersCounted
DEF IInv, TypeOK, CallLedger, RequestsWithinQuota, Local, Timed, Ledger, Quota

\* And back: a step that changes only call r restores it.
LEMMA Restored ==
  ASSUME IInv, NEW r \in Requests, NEW q \in Calls,
         config' = config, req' = [req EXCEPT ![r] = q],
         cache' \in [Keys -> Nat \cup {None}],
         q.phase \in {"calling", "backoff"} => q.page > 0,
         q.phase = "backoff" => q.attempt <= config.retries,
         Local(conn', now', failedAt',
               Others(r) + Bit(q.phase = "calling"), Rest(r) + Bit(q.page > 0))
  PROVE  IInv'
<1>1. Calls' = Calls /\ Connectors' = Connectors
  BY DEF Calls, Connectors
<1>2. req' \in [Requests -> Calls] /\ req'[r] = q
  BY DEF IInv, TypeOK
<1>3. TypeOK'
  BY <1>1, <1>2 DEF IInv, TypeOK, Local, Timed
<1>4. CallsBegun'
  BY DEF IInv, TypeOK, CallsBegun
<1>5. Breaker(conn, now, failedAt)'
  BY DEF Local, Timed, Breaker
<1>6. InFlight' \ {r} = InFlight \ {r} /\ Started' \ {r} = Started \ {r}
  BY DEF IInv, TypeOK, InFlight, Started
<1>7. /\ Cardinality(InFlight') = Others(r) + Bit(q.phase = "calling")
      /\ Cardinality(Started') = Rest(r) + Bit(q.page > 0)
  <2>1. (/\ Cardinality(InFlight) = Others(r) + Bit(req[r].phase = "calling")
         /\ Cardinality(Started) = Rest(r) + Bit(req[r].page > 0))'
    BY <1>3, OthersCounted, PTL
  <2>2. Others(r)' = Others(r) /\ Rest(r)' = Rest(r)
    BY <1>6 DEF Others, Rest
  <2>3. QED BY <1>2, <2>1, <2>2
<1>8. CallLedger' /\ RequestsWithinQuota'
  BY <1>7 DEF Local, Ledger, Quota, CallLedger, RequestsWithinQuota
<1>9. QED BY <1>3, <1>4, <1>5, <1>8 DEF IInv

-----------------------------------------------------------------------------
(* What each function of the attributes does to Local.  The settings are   *)
(* those of a state that satisfies TypeOK.                                 *)

\* Fewer tokens, or fewer calls started, keep the quota.
LEMMA QuotaWeakens ==
  ASSUME TypeOK, NEW c, NEW t, NEW f, NEW n \in Nat,
         NEW m \in Nat, Local(c, t, f, n, m + 1)
  PROVE  Local(c, t, f, n, m)
<1>1. config.capacity \in Nat /\ config.rate \in Nat
  BY ConfigTyped
<1>2. c.tokens \in Nat /\ t \in Nat
  BY <1>1 DEF Local, Timed, Connectors
<1>3. config.rate * t \in Nat
  BY <1>1, <1>2
<1>4. QED BY <1>1, <1>2, <1>3 DEF Local, Quota

LEMMA RefreshedIsLocal ==
  ASSUME TypeOK, NEW c, NEW n \in Nat, NEW m \in Nat, NEW f,
         Local(c, now, f, n, m)
  PROVE  Local(Refreshed(c), now, f, n, m)
<1>1. CASE ~(c.circuit = "open" /\ now - c.openedAt >= config.recovery)
  BY <1>1 DEF Refreshed
<1>2. CASE c.circuit = "open" /\ now - c.openedAt >= config.recovery
  <2>1. Refreshed(c) = [c EXCEPT !.circuit = "half-open"]
    BY <1>2 DEF Refreshed
  <2>2. c \in Connectors
    BY DEF Local, Timed
  <2>3. /\ Refreshed(c) \in Connectors
        /\ Refreshed(c).circuit = "half-open"
        /\ Refreshed(c).openedAt = c.openedAt
        /\ Refreshed(c).consecutive = c.consecutive
        /\ Refreshed(c).requests = c.requests
        /\ Refreshed(c).successful = c.successful
        /\ Refreshed(c).failed = c.failed
        /\ Refreshed(c).retries = c.retries
        /\ Refreshed(c).tokens = c.tokens
    BY <2>1, <2>2 DEF Connectors, Circuits
  <2>4. Breaker(Refreshed(c), now, f)
    BY <1>2, <2>3 DEF Local, Timed, Breaker
  <2>5. QED BY <2>3, <2>4 DEF Local, Timed, Ledger, Quota
<1>3. QED BY <1>1, <1>2

LEMMA SucceededIsLocal ==
  ASSUME TypeOK, NEW c, NEW t, NEW f, NEW n \in Nat, NEW m \in Nat,
         Local(c, t, f, n + 1, m)
  PROVE  Local(Succeeded(c), t, f, n, m)
<1>1. c \in Connectors
  BY DEF Local, Timed
<1> DEFINE d1 == [c EXCEPT !.successful = @ + 1]
           d2 == [d1 EXCEPT !.consecutive = 0]
           d3 == [d2 EXCEPT !.openedAt = None]
<1>2. /\ d1 \in Connectors
      /\ d1.requests = c.requests /\ d1.successful = c.successful + 1
      /\ d1.failed = c.failed /\ d1.retries = c.retries
      /\ d1.tokens = c.tokens
  BY <1>1 DEF Connectors
<1>3. Succeeded(c) = [d3 EXCEPT !.circuit = "closed"]
  BY <1>1 DEF Succeeded, Connectors
<1> HIDE DEF d1
<1>4. /\ d2 \in Connectors /\ d2.consecutive = 0
      /\ d2.requests = d1.requests /\ d2.successful = d1.successful
      /\ d2.failed = d1.failed /\ d2.retries = d1.retries
      /\ d2.tokens = d1.tokens
  BY <1>2 DEF Connectors
<1> HIDE DEF d2
<1>5. /\ d3 \in Connectors /\ d3.consecutive = 0 /\ d3.openedAt = None
      /\ d3.requests = d2.requests /\ d3.successful = d2.successful
      /\ d3.failed = d2.failed /\ d3.retries = d2.retries
      /\ d3.tokens = d2.tokens
  BY <1>4 DEF Connectors
<1> HIDE DEF d3
<1>6. /\ Succeeded(c) \in Connectors
      /\ Succeeded(c).circuit = "closed"
      /\ Succeeded(c).openedAt = None
      /\ Succeeded(c).consecutive = 0
      /\ Succeeded(c).requests = c.requests
      /\ Succeeded(c).successful = c.successful + 1
      /\ Succeeded(c).failed = c.failed
      /\ Succeeded(c).retries = c.retries
      /\ Succeeded(c).tokens = c.tokens
  BY <1>2, <1>3, <1>4, <1>5 DEF Connectors, Circuits
<1>7. Breaker(Succeeded(c), t, f)
  BY <1>6, ConfigTyped DEF Breaker
<1>8. c.requests \in Nat /\ c.successful \in Nat /\ c.failed \in Nat
      /\ c.retries \in Nat
  BY <1>1 DEF Connectors
<1>9. Ledger(Succeeded(c), n)
  BY <1>6, <1>8 DEF Local, Ledger
<1>10. QED BY <1>6, <1>7, <1>9 DEF Local, Timed, Quota

LEMMA FailedIsLocal ==
  ASSUME TypeOK, NEW c, NEW f, NEW n \in Nat, NEW m \in Nat,
         Local(c, now, f, n + 1, m)
  PROVE  Local(Failed(c), now, now, n, m)
<1> DEFINE h == [c EXCEPT !.failed = @ + 1]
           g == [h EXCEPT !.consecutive = c.consecutive + 1]
<1>1. c \in Connectors /\ c.failed \in Nat /\ c.consecutive \in Nat
  BY DEF Local, Timed, Connectors
<1>2. /\ h \in Connectors
      /\ h.circuit = c.circuit /\ h.openedAt = c.openedAt
      /\ h.requests = c.requests /\ h.successful = c.successful
      /\ h.failed = c.failed + 1 /\ h.retries = c.retries
      /\ h.tokens = c.tokens
  BY <1>1 DEF Connectors
<1>3. g = [c EXCEPT !.failed = @ + 1, !.consecutive = @ + 1]
  BY <1>1 DEF Connectors
<1> HIDE DEF h
<1>4. /\ g \in Connectors
      /\ g.circuit = c.circuit /\ g.openedAt = c.openedAt
      /\ g.consecutive = c.consecutive + 1
      /\ g.requests = c.requests /\ g.successful = c.successful
      /\ g.failed = c.failed + 1 /\ g.retries = c.retries
      /\ g.tokens = c.tokens
  BY <1>1, <1>2 DEF Connectors
<1> HIDE DEF g
<1>5. Failed(c) = IF g.circuit = "half-open" \/ g.consecutive >= config.threshold
                    THEN [g EXCEPT !.openedAt = now, !.circuit = "open"] ELSE g
  BY <1>3 DEF Failed
<1>6. now \in Nat
  BY DEF TypeOK
<1>7. /\ Failed(c) \in Connectors
      /\ Failed(c).consecutive = g.consecutive
      /\ Failed(c).requests = g.requests
      /\ Failed(c).successful = g.successful
      /\ Failed(c).failed = g.failed
      /\ Failed(c).retries = g.retries
      /\ Failed(c).tokens = g.tokens
  BY <1>4, <1>5, <1>6 DEF Connectors, Circuits
<1>8. c.requests \in Nat /\ c.successful \in Nat /\ c.failed \in Nat
      /\ c.retries \in Nat
      /\ c.consecutive \in Nat /\ c.circuit \in Circuits
  BY <1>1 DEF Connectors
<1>9. Breaker(Failed(c), now, now)
  <2>1. CASE g.circuit = "half-open" \/ g.consecutive >= config.threshold
    <3>1. Failed(c).circuit = "open" /\ Failed(c).openedAt = now
      BY <1>4, <1>5, <2>1 DEF Connectors
    <3>2. ~(Failed(c).consecutive < config.threshold)
      BY <1>4, <1>7, <1>8, <2>1, ConfigTyped DEF Local, Timed, Breaker
    <3>3. QED BY <1>6, <3>1, <3>2 DEF Breaker, None
  <2>2. CASE ~(g.circuit = "half-open" \/ g.consecutive >= config.threshold)
    <3>1. Failed(c) = g
      BY <1>5, <2>2
    <3>2. Failed(c).consecutive < config.threshold
      BY <1>4, <1>8, <2>2, <3>1, ConfigTyped
    <3>3. c.circuit = "closed" /\ c.openedAt = None
      BY <1>4, <1>8, <2>2, ConfigTyped DEF Local, Timed, Breaker
    <3>4. QED BY <1>4, <3>1, <3>2, <3>3 DEF Breaker
  <2>3. QED BY <2>1, <2>2
<1>10. Ledger(Failed(c), n)
  BY <1>4, <1>7, <1>8 DEF Local, Ledger
<1>11. QED BY <1>4, <1>6, <1>7, <1>9, <1>10 DEF Local, Timed, Quota

\* A call is counted as it is sent.
LEMMA CountedIsLocal ==
  ASSUME TypeOK, NEW c, NEW t, NEW f, NEW n \in Nat, NEW m \in Nat,
         Local(c, t, f, n, m)
  PROVE  /\ Local([c EXCEPT !.requests = @ + 1], t, f, n + 1, m)
         /\ [c EXCEPT !.requests = @ + 1].tokens = c.tokens
<1> DEFINE d == [c EXCEPT !.requests = @ + 1]
<1>1. c \in Connectors
  BY DEF Local, Timed
<1>2. /\ d \in Connectors
      /\ d.circuit = c.circuit /\ d.openedAt = c.openedAt
      /\ d.consecutive = c.consecutive /\ d.requests = c.requests + 1
      /\ d.successful = c.successful /\ d.failed = c.failed
      /\ d.retries = c.retries /\ d.tokens = c.tokens
  BY <1>1 DEF Connectors
<1> HIDE DEF d
<1>3. c.requests \in Nat /\ c.successful \in Nat /\ c.failed \in Nat
      /\ c.retries \in Nat
  BY <1>1 DEF Connectors
<1>4. Ledger(d, n + 1)
  BY <1>2, <1>3 DEF Local, Ledger
<1>5. Local(d, t, f, n + 1, m)
  BY <1>2, <1>4 DEF Local, Timed, Breaker, Quota
<1>6. QED BY <1>2, <1>5 DEF d

\* A token pays for a request that starts.
LEMMA ConsumedIsLocal ==
  ASSUME TypeOK, NEW c, NEW t, NEW f, NEW n \in Nat,
         NEW m \in Nat, Local(c, t, f, n, m), c.tokens >= 1
  PROVE  Local(Consumed(c), t, f, n, m + 1)
<1>1. c \in Connectors /\ t \in Nat
  BY DEF Local, Timed
<1>2. config.capacity \in Nat /\ config.rate \in Nat
  BY ConfigTyped
<1>3. /\ Consumed(c) \in Connectors
      /\ Consumed(c).circuit = c.circuit /\ Consumed(c).openedAt = c.openedAt
      /\ Consumed(c).consecutive = c.consecutive
      /\ Consumed(c).requests = c.requests
      /\ Consumed(c).successful = c.successful
      /\ Consumed(c).failed = c.failed
      /\ Consumed(c).retries = c.retries
      /\ Consumed(c).tokens = c.tokens - 1
  BY <1>1, <1>2 DEF Consumed, Connectors
<1>4. c.tokens \in Nat
  BY <1>1, <1>2 DEF Connectors
<1>5. config.rate \in Nat /\ t \in Nat
  BY <1>1, <1>2
<1>6. config.rate * t \in Nat
  BY <1>5
<1>7. Quota(Consumed(c), t, m + 1)
  BY <1>2, <1>3, <1>4, <1>6 DEF Local, Quota
<1>8. QED BY <1>3, <1>7 DEF Local, Timed, Breaker, Ledger

\* A tick refills the bucket.
LEMMA RefilledIsLocal ==
  ASSUME TypeOK, NEW c, NEW f, NEW n \in Nat, NEW m \in Nat,
         Local(c, now, f, n, m)
  PROVE  Local(Refilled(c), now + 1, f, n, m)
<1>1. c \in Connectors /\ now \in Nat /\ f \in Nat \cup {None}
  BY DEF Local, Timed
<1>2. config.capacity \in Nat /\ config.rate \in Nat /\ config.recovery \in Nat
  BY ConfigTyped
<1>3. c.tokens \in 0..config.capacity
  BY <1>1 DEF Connectors
<1>4. /\ Refilled(c) \in Connectors
      /\ Refilled(c).circuit = c.circuit /\ Refilled(c).openedAt = c.openedAt
      /\ Refilled(c).consecutive = c.consecutive
      /\ Refilled(c).requests = c.requests
      /\ Refilled(c).successful = c.successful
      /\ Refilled(c).failed = c.failed
      /\ Refilled(c).retries = c.retries
      /\ Refilled(c).tokens <= c.tokens + config.rate
      /\ Refilled(c).tokens \in Nat
  BY <1>1, <1>2, <1>3 DEF Refilled, Connectors
<1>5. config.rate \in Nat /\ now \in Nat
  BY <1>1, <1>2
<1>6. /\ config.rate * now \in Nat
      /\ config.rate * (now + 1) = config.rate * now + config.rate
  BY <1>5
<1>7. Quota(Refilled(c), now + 1, m)
  BY <1>2, <1>3, <1>4, <1>6 DEF Local, Quota
<1>8. Breaker(Refilled(c), now + 1, f)
  BY <1>1, <1>2, <1>4 DEF Local, Timed, Breaker, None
<1>9. QED BY <1>1, <1>4, <1>7, <1>8 DEF Local, Timed, Ledger

\* The counters of refused and of limited calls count nothing else.
LEMMA TalliedIsLocal ==
  ASSUME TypeOK, NEW c, NEW t, NEW f, NEW n \in Nat, NEW m \in Nat,
         Local(c, t, f, n, m)
  PROVE  /\ Local([c EXCEPT !.limited = @ + 1], t, f, n, m)
         /\ Local([c EXCEPT !.short = @ + 1], t, f, n, m)
<1>1. c \in Connectors
  BY DEF Local, Timed
<1>2. /\ [c EXCEPT !.limited = @ + 1] \in Connectors
      /\ [c EXCEPT !.short = @ + 1] \in Connectors
  BY <1>1 DEF Connectors
<1>3. QED BY <1>1, <1>2 DEF Local, Timed, Breaker, Ledger, Quota, Connectors

\* A failure that is retried settles its call, and may count as limited.
LEMMA RetriedIsLocal ==
  ASSUME TypeOK, NEW c, NEW t, NEW f, NEW n \in Nat, NEW m \in Nat,
         NEW told \in {0, 1}, Local(c, t, f, n + 1, m)
  PROVE  Local([c EXCEPT !.retries = @ + 1, !.limited = @ + told], t, f, n, m)
<1> DEFINE e == [c EXCEPT !.retries = @ + 1]
           d == [e EXCEPT !.limited = c.limited + told]
<1>1. c \in Connectors /\ c.retries \in Nat /\ c.limited + told \in Nat
  BY DEF Local, Timed, Connectors
<1>2. /\ e \in Connectors
      /\ e.circuit = c.circuit /\ e.openedAt = c.openedAt
      /\ e.consecutive = c.consecutive /\ e.requests = c.requests
      /\ e.successful = c.successful /\ e.failed = c.failed
      /\ e.retries = c.retries + 1 /\ e.tokens = c.tokens
  BY <1>1 DEF Connectors
<1>3. d = [c EXCEPT !.retries = @ + 1, !.limited = @ + told]
  BY <1>1 DEF Connectors
<1> HIDE DEF e
<1>4. /\ d \in Connectors
      /\ d.circuit = c.circuit /\ d.openedAt = c.openedAt
      /\ d.consecutive = c.consecutive /\ d.requests = c.requests
      /\ d.successful = c.successful /\ d.failed = c.failed
      /\ d.retries = c.retries + 1 /\ d.tokens = c.tokens
  BY <1>1, <1>2 DEF Connectors
<1> HIDE DEF d
<1>5. c.requests \in Nat /\ c.successful \in Nat /\ c.failed \in Nat
      /\ c.retries \in Nat
  BY <1>1 DEF Connectors
<1>6. Ledger(d, n)
  BY <1>4, <1>5 DEF Local, Ledger
<1>7. Local(d, t, f, n, m)
  BY <1>4, <1>6 DEF Local, Timed, Breaker, Quota
<1>8. QED BY <1>7, <1>3

-----------------------------------------------------------------------------
(* The steps of a call. *)

LEMMA CallIsOneRecord ==
  ASSUME TypeOK, NEW r \in Requests, NEW page \in 1..config.pages,
         NEW attempt \in 1..(config.retries + 1), Call(r, page, attempt)
  PROVE  \E q \in Calls : /\ req' = [req EXCEPT ![r] = q]
                          /\ q.phase = "calling" /\ q.page = page
<1> DEFINE p1 == [req[r] EXCEPT !.phase = "calling"]
           p2 == [p1 EXCEPT !.page = page]
           p3 == [p2 EXCEPT !.attempt = attempt]
<1>1. req[r] \in Calls /\ config.retries \in Nat /\ config.pages \in Nat
  BY ConfigTyped DEF TypeOK
<1>2. req' = [req EXCEPT ![r] = p3]
  BY <1>1 DEF Call, Calls, TypeOK
<1>3. p1 \in Calls /\ p1.phase = "calling"
  BY <1>1 DEF Calls
<1> HIDE DEF p1
<1>4. page \in 0..config.pages /\ attempt \in 0..(config.retries + 1)
  BY <1>1
<1>5. p2 \in Calls /\ p2.phase = "calling" /\ p2.page = page
  BY <1>3, <1>4 DEF Calls
<1> HIDE DEF p2
<1>6. p3 \in Calls /\ p3.phase = "calling" /\ p3.page = page
  BY <1>4, <1>5 DEF Calls
<1>7. QED BY <1>2, <1>6

LEMMA AnswerIsOneRecord ==
  ASSUME TypeOK, NEW r \in Requests, NEW answer \in Answers,
         Answered(r, answer)
  PROVE  \E q \in Calls : /\ req' = [req EXCEPT ![r] = q]
                          /\ q.phase = "done" /\ q.page = req[r].page
<1> DEFINE p1 == [req[r] EXCEPT !.phase = "done"]
           p2 == [p1 EXCEPT !.answer = answer]
<1>1. req[r] \in Calls
  BY DEF TypeOK
<1>2. req' = [req EXCEPT ![r] = p2]
  BY <1>1 DEF Answered, Calls, TypeOK
<1>3. p1 \in Calls /\ p1.phase = "done" /\ p1.page = req[r].page
  BY <1>1 DEF Calls
<1> HIDE DEF p1
<1>4. p2 \in Calls /\ p2.phase = "done" /\ p2.page = req[r].page
  BY <1>3 DEF Calls
<1>5. QED BY <1>2, <1>4

\* An answered call is settled, and stays started or not started.
LEMMA AnsweredKeeps ==
  ASSUME IInv, NEW r \in Requests, NEW answer \in Answers,
         Answered(r, answer), config' = config,
         cache' \in [Keys -> Nat \cup {None}],
         Local(conn', now', failedAt', Others(r), Rest(r) + Bit(req[r].page > 0))
  PROVE  IInv'
<1>1. TypeOK
  BY DEF IInv
<1>2. PICK q \in Calls : /\ req' = [req EXCEPT ![r] = q]
                        /\ q.phase = "done" /\ q.page = req[r].page
  BY <1>1, AnswerIsOneRecord
<1>3. Bit(q.phase = "calling") = 0
  BY <1>2 DEF Bit
<1>4. Bit(q.page > 0) = Bit(req[r].page > 0)
  BY <1>2
<1>5. Others(r) + Bit(q.phase = "calling") = Others(r)
  BY <1>1, <1>3, OthersCounted
<1>6. QED BY <1>2, <1>4, <1>5, Restored

LEMMA CallKeeps ==
  ASSUME IInv, NEW r \in Requests, NEW page \in 1..config.pages,
         NEW attempt \in 1..(config.retries + 1), Call(r, page, attempt),
         config' = config, cache' \in [Keys -> Nat \cup {None}],
         Local(conn', now', failedAt', Others(r) + 1, Rest(r) + 1)
  PROVE  IInv'
<1>1. TypeOK
  BY DEF IInv
<1>2. PICK q \in Calls : /\ req' = [req EXCEPT ![r] = q]
                        /\ q.phase = "calling" /\ q.page = page
  BY <1>1, CallIsOneRecord
<1>3. q.page > 0
  BY <1>1, <1>2, ConfigTyped
<1>4. Bit(q.phase = "calling") = 1 /\ Bit(q.page > 0) = 1
  BY <1>2, <1>3 DEF Bit
<1>5. QED BY <1>2, <1>3, <1>4, Restored

LEMMA BitIsBit == ASSUME NEW b PROVE Bit(b) \in {0, 1}
BY DEF Bit

LEMMA SendKeeps ==
  ASSUME IInv, NEW r \in Requests, NEW c, NEW page \in 1..config.pages,
         NEW attempt \in 1..(config.retries + 1), Send(r, c, page, attempt),
         config' = config, cache' \in [Keys -> Nat \cup {None}],
         Local(c, now, failedAt, Others(r), Rest(r) + 1)
  PROVE  IInv'
<1> DEFINE counted == [c EXCEPT !.requests = @ + 1]
<1>1. TypeOK
  BY DEF IInv
<1>2. /\ Others(r) \in Nat /\ Others(r) + 1 \in Nat
      /\ Rest(r) \in Nat /\ Rest(r) + 1 \in Nat
  BY <1>1, OthersCounted
<1>3. Local(counted, now, failedAt, Others(r) + 1, Rest(r) + 1) /\ counted.tokens = c.tokens
  BY <1>2, <1>1, CountedIsLocal
<1> HIDE DEF counted
<1>4. CASE /\ conn' = counted
           /\ Call(r, page, attempt)
           /\ UNCHANGED <<now, failedAt>>
  BY <1>3, <1>4, CallKeeps
<1>5. CASE /\ c.tokens >= 1
           /\ conn' = Consumed(counted)
           /\ Call(r, page, attempt)
           /\ UNCHANGED <<now, failedAt>>
  <2>1. Local(counted, now, failedAt, Others(r) + 1, Rest(r))
    BY <1>2, <1>1, <1>3, QuotaWeakens
  <2>2. Local(Consumed(counted), now, failedAt, Others(r) + 1, Rest(r) + 1)
    BY <1>2, <1>1, <1>3, <1>5, <2>1, ConsumedIsLocal
  <2>3. QED BY <1>5, <2>2, CallKeeps
<1>6. CASE /\ now' = now + 1
           /\ conn' = [Refilled(counted) EXCEPT !.limited = @ + 1]
           /\ Call(r, page, attempt)
           /\ UNCHANGED failedAt
  <2>1. Local(Refilled(counted), now + 1, failedAt, Others(r) + 1, Rest(r) + 1)
    BY <1>2, <1>1, <1>3, RefilledIsLocal
  <2>2. Local(conn', now', failedAt', Others(r) + 1, Rest(r) + 1)
    BY <1>2, <1>1, <1>6, <2>1, TalliedIsLocal
  <2>3. QED BY <1>6, <2>2, CallKeeps
<1>7. CASE /\ conn' = Refreshed(Failed([counted EXCEPT !.limited = @ + 1]))
           /\ Answered(r, "connector_error")
           /\ failedAt' = now
           /\ UNCHANGED now
  <2> DEFINE told == [counted EXCEPT !.limited = @ + 1]
  <2>1. Local(told, now, failedAt, Others(r) + 1, Rest(r) + 1)
    BY <1>2, <1>1, <1>3, TalliedIsLocal
  <2> HIDE DEF told
  <2>2. Local(Failed(told), now, now, Others(r), Rest(r) + 1)
    BY <1>2, <1>1, <2>1, FailedIsLocal
  <2>3. Local(Refreshed(Failed(told)), now, now, Others(r), Rest(r) + 1)
    BY <1>2, <1>1, <2>2, RefreshedIsLocal
  <2>4. Rest(r) + Bit(req[r].page > 0) \in {Rest(r), Rest(r) + 1}
    BY <1>2, BitIsBit
  <2>5. Local(Refreshed(Failed(told)), now, now, Others(r), Rest(r) + Bit(req[r].page > 0))
    BY <1>2, <1>1, <2>3, <2>4, QuotaWeakens
  <2>6. "connector_error" \in Answers
    BY DEF Answers, Degraded
  <2>7. QED BY <1>7, <2>5, <2>6, AnsweredKeeps DEF told
<1>8. QED BY <1>4, <1>5, <1>6, <1>7 DEF Send, counted

-----------------------------------------------------------------------------
(* One lemma per action. *)

LEMMA NewIsLocal ==
  ASSUME IInv, NEW r \in Requests, req[r].phase = "new"
  PROVE  /\ Local(conn, now, failedAt, Others(r), Rest(r) + Bit(req[r].page > 0))
         /\ Local(conn, now, failedAt, Others(r), Rest(r))
<1>1. Others(r) \in Nat /\ Rest(r) \in Nat /\ TypeOK
  BY OthersCounted DEF IInv
<1>2. Bit(req[r].phase = "calling") = 0
  BY DEF Bit
<1>3. Others(r) + Bit(req[r].phase = "calling") = Others(r)
  BY <1>1, <1>2
<1>4. Local(conn, now, failedAt, Others(r), Rest(r) + Bit(req[r].page > 0))
  BY <1>3, Seen
<1>5. Rest(r) + Bit(req[r].page > 0) \in {Rest(r), Rest(r) + 1}
  BY <1>1, BitIsBit
<1>6. QED BY <1>1, <1>4, <1>5, QuotaWeakens

LEMMA CallingIsLocal ==
  ASSUME IInv, NEW r \in Requests, req[r].phase = "calling"
  PROVE  /\ Local(conn, now, failedAt, Others(r) + 1, Rest(r) + 1)
         /\ Bit(req[r].page > 0) = 1
<1>1. req[r].page > 0
  BY DEF IInv, CallsBegun
<1>2. Bit(req[r].phase = "calling") = 1 /\ Bit(req[r].page > 0) = 1
  BY <1>1 DEF Bit
<1>3. QED BY <1>2, Seen

LEMMA WaitingIsLocal ==
  ASSUME IInv, NEW r \in Requests, req[r].phase = "backoff"
  PROVE  Local(conn, now, failedAt, Others(r), Rest(r) + 1)
<1>1. req[r].page > 0 /\ TypeOK
  BY DEF IInv, CallsBegun
<1>2. Bit(req[r].phase = "calling") = 0 /\ Bit(req[r].page > 0) = 1
  BY <1>1 DEF Bit
<1>3. Others(r) + Bit(req[r].phase = "calling") = Others(r)
  BY <1>1, <1>2, OthersCounted
<1>4. QED BY <1>2, <1>3, Seen

LEMMA BeginKeeps ==
  ASSUME IInv, NEW r \in Requests, Begin(r), config' = config
  PROVE  IInv'
<1> DEFINE k == req[r].key
           c == Refreshed(conn)
           evicted == [cache EXCEPT ![k] = IF CacheHit(k) THEN @ ELSE None]
<1>1. /\ TypeOK /\ Others(r) \in Nat /\ Rest(r) \in Nat
      /\ Rest(r) + Bit(req[r].page > 0) \in {Rest(r), Rest(r) + 1}
  BY OthersCounted, BitIsBit DEF IInv
<1>2. /\ Local(conn, now, failedAt, Others(r), Rest(r) + Bit(req[r].page > 0))
      /\ Local(conn, now, failedAt, Others(r), Rest(r))
  BY NewIsLocal DEF Begin
<1>3. Rest(r) + Bit(req[r].page > 0) \in Nat
  BY <1>1
<1>4. /\ Local(c, now, failedAt, Others(r), Rest(r) + Bit(req[r].page > 0))
      /\ Local(c, now, failedAt, Others(r), Rest(r))
  BY <1>1, <1>2, <1>3, RefreshedIsLocal
<1>5. cache \in [Keys -> Nat \cup {None}] /\ evicted \in [Keys -> Nat \cup {None}]
  BY <1>1 DEF TypeOK
<1> HIDE DEF c, evicted
<1>6. CASE Answered(r, "cached") /\ UNCHANGED <<now, conn, cache, failedAt>>
  <2>1. "cached" \in Answers
    BY DEF Answers
  <2>2. QED BY <1>2, <1>5, <1>6, <2>1, AnsweredKeeps
<1>7. CASE /\ conn' = [c EXCEPT !.short = @ + 1] /\ Answered(r, "circuit_open")
           /\ cache' = evicted /\ UNCHANGED <<now, failedAt>>
  <2>1. "circuit_open" \in Answers
    BY DEF Answers, Degraded
  <2>2. Local(conn', now', failedAt', Others(r), Rest(r) + Bit(req[r].page > 0))
    BY <1>1, <1>3, <1>4, <1>7, TalliedIsLocal
  <2>3. QED BY <1>5, <1>7, <2>1, <2>2, AnsweredKeeps
<1>8. CASE /\ conn' = [c EXCEPT !.limited = @ + 1]
           /\ Answered(r, "rate_limit_exceeded")
           /\ cache' = evicted /\ UNCHANGED <<now, failedAt>>
  <2>1. "rate_limit_exceeded" \in Answers
    BY DEF Answers, Degraded
  <2>2. Local(conn', now', failedAt', Others(r), Rest(r) + Bit(req[r].page > 0))
    BY <1>1, <1>3, <1>4, <1>8, TalliedIsLocal
  <2>3. QED BY <1>5, <1>8, <2>1, <2>2, AnsweredKeeps
<1>9. CASE c.tokens >= 1 /\ cache' = evicted /\ Send(r, Consumed(c), 1, 1)
  <2>1. Local(Consumed(c), now, failedAt, Others(r), Rest(r) + 1)
    BY <1>1, <1>4, <1>9, ConsumedIsLocal
  <2>2. 1 \in 1..config.pages /\ 1 \in 1..(config.retries + 1)
    BY <1>1, ConfigTyped
  <2>3. QED BY <1>5, <1>9, <2>1, <2>2, SendKeeps
<1>10. CASE /\ c.tokens >= 1 /\ cache' = evicted /\ conn' = Consumed(c)
            /\ Answered(r, "connector_error") /\ UNCHANGED <<now, failedAt>>
  <2>1. Local(Consumed(c), now, failedAt, Others(r), Rest(r) + 1)
    BY <1>1, <1>4, <1>10, ConsumedIsLocal
  <2>2. Local(Consumed(c), now, failedAt, Others(r),
              Rest(r) + Bit(req[r].page > 0))
    BY <1>1, <2>1, QuotaWeakens
  <2>3. "connector_error" \in Answers
    BY DEF Answers, Degraded
  <2>4. QED BY <1>5, <1>10, <2>2, <2>3, AnsweredKeeps
<1>11. QED BY <1>6, <1>7, <1>8, <1>9, <1>10 DEF Begin, c, evicted

LEMMA AnswerKeeps ==
  ASSUME IInv, NEW r \in Requests, Answer(r), config' = config
  PROVE  IInv'
<1>1. /\ TypeOK /\ Others(r) \in Nat /\ Rest(r) + 1 \in Nat
      /\ req[r] \in Calls /\ cache \in [Keys -> Nat \cup {None}]
  BY OthersCounted DEF IInv, TypeOK
<1>2. req[r].phase = "calling"
  BY DEF Answer, MorePages, LastPage, Malformed, TransientFailure, FinalFailure
<1>3. /\ Local(conn, now, failedAt, Others(r) + 1, Rest(r) + 1)
      /\ Bit(req[r].page > 0) = 1
  BY <1>2, CallingIsLocal
<1>4. Local(Succeeded(conn), now, failedAt, Others(r), Rest(r) + 1)
  BY <1>1, <1>3, SucceededIsLocal
<1>5. "connector_error" \in Answers /\ "remote" \in Answers
  BY DEF Answers, Degraded
<1>6. CASE MorePages(r)
  <2>1. /\ req[r].page < config.pages
        /\ Send(r, Succeeded(conn), req[r].page + 1, 1) /\ UNCHANGED cache
    BY <1>6 DEF MorePages
  <2>2. req[r].page + 1 \in 1..config.pages /\ 1 \in 1..(config.retries + 1)
    BY <1>1, <2>1, ConfigTyped DEF Calls
  <2>3. QED BY <1>1, <1>4, <2>1, <2>2, SendKeeps
<1>7. CASE LastPage(r)
  <2>1. /\ conn' = Succeeded(conn) /\ Answered(r, "remote")
        /\ cache' = [cache EXCEPT ![req[r].key] = now + TTL]
        /\ UNCHANGED <<now, failedAt>>
    BY <1>7 DEF LastPage
  <2>2. now + TTL \in Nat
    BY <1>1, ConnectorAssumption DEF TypeOK
  <2>3. cache' \in [Keys -> Nat \cup {None}]
    BY <1>1, <2>1, <2>2
  <2>4. Local(conn', now', failedAt', Others(r), Rest(r) + Bit(req[r].page > 0))
    BY <1>3, <1>4, <2>1
  <2>5. QED BY <1>5, <2>1, <2>3, <2>4, AnsweredKeeps
<1>8. CASE Malformed(r)
  <2>1. /\ conn' = Refreshed(Succeeded(conn)) /\ Answered(r, "connector_error")
        /\ UNCHANGED <<now, cache, failedAt>>
    BY <1>8 DEF Malformed, Degrade
  <2>2. Local(Refreshed(Succeeded(conn)), now, failedAt, Others(r), Rest(r) + 1)
    BY <1>1, <1>4, RefreshedIsLocal
  <2>3. Local(conn', now', failedAt', Others(r), Rest(r) + Bit(req[r].page > 0))
    BY <1>3, <2>1, <2>2
  <2>4. QED BY <1>1, <1>5, <2>1, <2>3, AnsweredKeeps
<1>9. CASE TransientFailure(r)
  <2> DEFINE q == [req[r] EXCEPT !.phase = "backoff"]
  <2>1. PICK told \in {0, 1} :
          conn' = [conn EXCEPT !.retries = @ + 1, !.limited = @ + told]
    BY <1>9 DEF TransientFailure
  <2>2. /\ req' = [req EXCEPT ![r] = q] /\ UNCHANGED <<now, cache, failedAt>>
        /\ req[r].attempt <= config.retries
    BY <1>9 DEF TransientFailure
  <2>3. /\ q \in Calls /\ q.phase = "backoff" /\ q.page = req[r].page
        /\ q.attempt = req[r].attempt
    BY <1>1 DEF Calls
  <2> HIDE DEF q
  <2>4. q.page > 0
    BY <1>2, <2>3 DEF IInv, CallsBegun
  <2>5. Local(conn', now', failedAt', Others(r), Rest(r) + 1)
    BY <1>1, <1>3, <2>1, <2>2, RetriedIsLocal
  <2>6. Bit(q.phase = "calling") = 0 /\ Bit(q.page > 0) = 1
    BY <2>3, <2>4 DEF Bit
  <2>7. Others(r) + Bit(q.phase = "calling") = Others(r)
    BY <1>1, <2>6
  <2>8. QED BY <1>1, <2>2, <2>3, <2>4, <2>5, <2>6, <2>7, Restored
<1>10. CASE FinalFailure(r)
  <2>1. /\ conn' = Refreshed(Failed(conn)) /\ Answered(r, "connector_error")
        /\ failedAt' = now /\ UNCHANGED <<now, cache>>
    BY <1>10 DEF FinalFailure, RecordFailure, Degrade
  <2>2. Local(Failed(conn), now, now, Others(r), Rest(r) + 1)
    BY <1>1, <1>3, FailedIsLocal
  <2>3. Local(Refreshed(Failed(conn)), now, now, Others(r), Rest(r) + 1)
    BY <1>1, <2>2, RefreshedIsLocal
  <2>4. Local(conn', now', failedAt', Others(r), Rest(r) + Bit(req[r].page > 0))
    BY <1>3, <2>1, <2>3
  <2>5. QED BY <1>1, <1>5, <2>1, <2>4, AnsweredKeeps
<1>11. QED BY <1>6, <1>7, <1>8, <1>9, <1>10 DEF Answer

LEMMA RetryKeeps ==
  ASSUME IInv, NEW r \in Requests, Retry(r), config' = config
  PROVE  IInv'
<1>1. /\ TypeOK /\ req[r] \in Calls /\ req[r].phase = "backoff"
      /\ cache' \in [Keys -> Nat \cup {None}]
      /\ Send(r, conn, req[r].page, req[r].attempt + 1)
  BY DEF IInv, TypeOK, Retry
<1>2. Local(conn, now, failedAt, Others(r), Rest(r) + 1)
  BY <1>1, WaitingIsLocal
<1>3. req[r].page > 0 /\ req[r].attempt <= config.retries
  BY <1>1 DEF IInv, CallsBegun
<1>4. /\ req[r].page \in 1..config.pages
      /\ req[r].attempt + 1 \in 1..(config.retries + 1)
  BY <1>1, <1>3, ConfigTyped DEF Calls
<1>5. QED BY <1>1, <1>2, <1>4, SendKeeps

\* A step of no call: the calls in flight and started stay the same.
LEMMA EnvironmentKeeps ==
  ASSUME IInv, config' = config, req' = req, failedAt' = failedAt,
         cache' \in [Keys -> Nat \cup {None}],
         \A n, m \in Nat : Local(conn, now, failedAt, n, m)
                            => Local(conn', now', failedAt, n, m)
  PROVE  IInv'
<1>1. IsFiniteSet(InFlight) /\ IsFiniteSet(Started)
  <2>1. InFlight \subseteq Requests /\ Started \subseteq Requests
    BY DEF InFlight, Started
  <2>2. QED BY <2>1, ConnectorAssumption, FS_Subset
<1>2. Cardinality(InFlight) \in Nat /\ Cardinality(Started) \in Nat
  BY <1>1, FS_CardinalityType
<1>3. Local(conn, now, failedAt, Cardinality(InFlight), Cardinality(Started))
  BY DEF IInv, TypeOK, CallLedger, RequestsWithinQuota, Local, Timed, Ledger, Quota
<1>4. Local(conn', now', failedAt, Cardinality(InFlight), Cardinality(Started))
  BY <1>2, <1>3
<1>5. InFlight' = InFlight /\ Started' = Started
  BY DEF InFlight, Started
<1>6. Calls' = Calls /\ Connectors' = Connectors
  BY DEF Calls, Connectors
<1>7. TypeOK' /\ CallsBegun'
  BY <1>4, <1>6 DEF IInv, TypeOK, CallsBegun, Local, Timed
<1>8. Breaker(conn, now, failedAt)'
  BY <1>4 DEF Local, Timed, Breaker
<1>9. CallLedger' /\ RequestsWithinQuota'
  BY <1>4, <1>5 DEF Local, Ledger, Quota, CallLedger, RequestsWithinQuota
<1>10. QED BY <1>7, <1>8, <1>9 DEF IInv

-----------------------------------------------------------------------------
(* The theorems. *)

LEMMA InitEstablishes == Init => IInv
<1> SUFFICES ASSUME Init PROVE IInv
  OBVIOUS
<1>1. /\ config.throttled \in BOOLEAN
      /\ config.capacity \in Nat \ {0} /\ config.rate \in Nat
      /\ config.retries \in Nat /\ config.threshold \in Nat \ {0}
      /\ config.recovery \in Nat /\ config.pages \in Nat \ {0}
  BY ConnectorAssumption DEF Init, SettingsType
<1>2. conn = Fresh /\ now = 0 /\ failedAt = None
  BY DEF Init
<1>3. Fresh \in Connectors
  BY <1>1 DEF Fresh, Connectors, Circuits
<1>4. \A r \in Requests : /\ req[r] \in Calls
                          /\ req[r].phase = "new" /\ req[r].page = 0
  BY <1>1 DEF Init, NewCall, Calls, Answers
<1>5. TypeOK
  <2>1. req \in [Requests -> Calls]
    BY <1>4 DEF Init
  <2>2. QED BY <1>2, <1>3, <2>1 DEF Init, TypeOK
<1>6. CallsBegun
  BY <1>4 DEF CallsBegun
<1>7. Breaker(conn, now, failedAt)
  BY <1>1, <1>2 DEF Fresh, Breaker
<1>8. InFlight = {} /\ Started = {}
  BY <1>4 DEF InFlight, Started
<1>9. Cardinality(InFlight) = 0 /\ Cardinality(Started) = 0
  BY <1>8, FS_EmptySet
<1>10. CallLedger
  BY <1>2, <1>9 DEF CallLedger, Fresh
<1>11. RequestsWithinQuota
  BY <1>1, <1>2, <1>9 DEF RequestsWithinQuota, Fresh
<1>12. QED BY <1>5, <1>6, <1>7, <1>10, <1>11 DEF IInv

LEMMA NextKeeps == IInv /\ [Next]_vars => IInv'
<1> SUFFICES ASSUME IInv, [Next]_vars PROVE IInv'
  OBVIOUS
<1>1. TypeOK
  BY DEF IInv
<1>2. cache \in [Keys -> Nat \cup {None}]
  BY <1>1 DEF TypeOK
<1>3. ASSUME NEW r \in Requests, Progress(r), config' = config
      PROVE  IInv'
  BY <1>3, BeginKeeps, AnswerKeeps, RetryKeeps DEF Progress
<1>4. ASSUME NEW k \in Keys, Invalidate(k), config' = config
      PROVE  IInv'
  <2>1. cache' \in [Keys -> Nat \cup {None}]
    BY <1>2, <1>4 DEF Invalidate
  <2>2. conn' = conn /\ now' = now /\ req' = req /\ failedAt' = failedAt
    BY <1>4 DEF Invalidate
  <2>3. QED BY <1>4, <2>1, <2>2, EnvironmentKeeps
<1>5. ASSUME CheckHealth, config' = config
      PROVE  IInv'
  <2>1. /\ conn' = Refreshed(conn) /\ now' = now /\ cache' = cache
        /\ req' = req /\ failedAt' = failedAt
    BY <1>5 DEF CheckHealth
  <2>2. \A n, m \in Nat : Local(conn, now, failedAt, n, m)
                           => Local(conn', now', failedAt, n, m)
    BY <1>1, <2>1, RefreshedIsLocal
  <2>3. QED BY <1>2, <1>5, <2>1, <2>2, EnvironmentKeeps
<1>6. ASSUME Tick, config' = config
      PROVE  IInv'
  <2>1. /\ conn' = Refilled(conn) /\ now' = now + 1 /\ cache' = cache
        /\ req' = req /\ failedAt' = failedAt
    BY <1>6 DEF Tick
  <2>2. \A n, m \in Nat : Local(conn, now, failedAt, n, m)
                           => Local(conn', now', failedAt, n, m)
    BY <1>1, <2>1, RefilledIsLocal
  <2>3. QED BY <1>2, <1>6, <2>1, <2>2, EnvironmentKeeps
<1>7. ASSUME UNCHANGED vars
      PROVE  IInv'
  BY <1>2, <1>7, EnvironmentKeeps DEF vars
<1>8. QED BY <1>3, <1>4, <1>5, <1>6, <1>7 DEF Next

LEMMA Invariant == Spec => []IInv
BY InitEstablishes, NextKeeps, PTL DEF Spec

\* The connector's attributes and every call keep their types, whatever calls
\* interleave: the bucket never holds more than its capacity, no call makes
\* more than retries + 1 attempts at a page (_invoke_http_get_client_async).
THEOREM TypeCorrect == Spec => []TypeOK
<1>1. IInv => TypeOK
  BY DEF IInv
<1>2. QED BY <1>1, Invariant, PTL

\* The metrics of get_failure_metrics add up for any number of calls.
THEOREM LedgerBalances == Spec => []CallLedger
<1>1. IInv => CallLedger
  BY DEF IInv
<1>2. QED BY <1>1, Invariant, PTL

\* TokenBucketRateLimiter admits no more requests than it had tokens for.
THEOREM QuotaHolds == Spec => []RequestsWithinQuota
<1>1. IInv => RequestsWithinQuota
  BY DEF IInv
<1>2. QED BY <1>1, Invariant, PTL

\* The circuit, its opening time and the failures in a row agree.
THEOREM CircuitIsConsistent == Spec => []CircuitMatchesFailures
<1>1. IInv => CircuitMatchesFailures
  BY DEF IInv, Breaker, CircuitMatchesFailures
<1>2. QED BY <1>1, Invariant, PTL

\* The only step that starts a request is Begin, on a circuit that is closed
\* or that has been open for the recovery timeout.
LEMMA StartsAreGuarded ==
  ASSUME IInv, Next, NEW r \in Requests,
         req[r].page = 0, req'[r].page = 1
  PROVE  \/ conn.consecutive < config.threshold
         \/ now - failedAt >= config.recovery
<1>1. TypeOK /\ req \in [Requests -> Calls]
  BY DEF IInv, TypeOK
<1>2. req' # req
  OBVIOUS
<1>3. PICK q \in Requests : Progress(q)
  BY <1>2 DEF Next, Invalidate, CheckHealth, Tick
<1>4. q = r
  <2>1. ASSUME q # r
        PROVE  req'[r] = req[r]
    BY <1>1, <1>3, <2>1
    DEF Progress, Begin, Answer, Retry, MorePages, LastPage, Malformed,
        TransientFailure, FinalFailure, RecordFailure, Degrade, Send, Call, Answered
  <2>2. QED BY <2>1
<1>5. req[r].phase \notin {"calling", "backoff"}
  BY DEF IInv, CallsBegun
<1>6. Begin(r)
  BY <1>3, <1>4, <1>5
  DEF Progress, Answer, Retry, MorePages, LastPage, Malformed,
      TransientFailure, FinalFailure
<1>7. Refreshed(conn).circuit # "open"
  <2>1. ASSUME Refreshed(conn).circuit = "open"
        PROVE  \E answer \in Answers : Answered(r, answer)
    BY <1>6, <2>1 DEF Begin, Answers, Degraded
  <2>2. ASSUME NEW answer \in Answers, Answered(r, answer)
        PROVE  req'[r].page = req[r].page
    BY <1>1, <2>2, AnswerIsOneRecord
  <2>3. QED BY <2>1, <2>2
<1>8. CASE conn.circuit = "closed"
  BY <1>8 DEF IInv, Breaker
<1>9. CASE conn.circuit = "half-open"
  BY <1>9 DEF IInv, Breaker
<1>10. CASE conn.circuit = "open"
  <2>1. now - conn.openedAt >= config.recovery
    BY <1>7, <1>10 DEF Refreshed
  <2>2. QED BY <1>10, <2>1 DEF IInv, Breaker
<1>11. conn.circuit \in Circuits
  BY <1>1 DEF TypeOK, Connectors
<1>12. QED BY <1>8, <1>9, <1>10, <1>11 DEF Circuits

\* Once threshold calls have failed in a row, no request starts upstream
\* before the recovery timeout has passed since the latest failure.
THEOREM BreakerKeepsOut == Spec => BreakerHolds
<1>1. IInv /\ [Next]_vars =>
        [\A r \in Requests :
           req[r].page = 0 /\ req'[r].page = 1 =>
             \/ conn.consecutive < config.threshold
             \/ now - failedAt >= config.recovery]_vars
  BY StartsAreGuarded
<1>2. QED BY <1>1, Invariant, PTL DEF Spec, BreakerHolds

-----------------------------------------------------------------------------
(* The searches of PortalFetch: the invariant. *)

\* No two copies have one link.
OneLinkEach(copies) ==
  \A c, d \in copies : Link(c.row) = Link(d.row) => c = d

\* The copies stand for row r: by its link where links are kept once.
Covered(copies, r) ==
  IF Search(setup).unique THEN \E c \in copies : Link(c.row) = Link(r)
  ELSE \E c \in copies : c.row = r

\* A search for the words' term finds row r.
Suits(words, term, r) ==
  setup.kind = "ngo" /\ words # {} => Terms(words)[term] \in WordsOf[r]

\* Row r is listed behind the pages before this one.
ToCome(r, words, term, page) ==
  \E i \in Found(setup, words, term) :
    /\ catalog[i] = r
    /\ (page - 1) * Size(setup) < Rank(Found(setup, words, term), i)

\* The results that must be whole.
Whole(a) ==
  (/\ a.status = "remote" /\ a.clean
   /\ Paged(setup) /\ Understood(setup))
  => \A r \in a.held :
       Sought(setup, a.words, r) => \E c \in a.copies : Link(c.row) = Link(r)

\* A call is a record that counts terms and pages from 1.
FetchShape ==
  /\ DOMAIN fetch = DOMAIN NoFetch
  /\ fetch.pc \in {"idle", "calling", "backoff"}
  /\ fetch.term \in Nat \ {0} /\ fetch.page \in Nat \ {0}
  /\ fetch.clean \in BOOLEAN

\* What a search with unique links keeps, returns and caches has each once.
LinksInv ==
  Search(setup).unique =>
    /\ OneLinkEach(fetch.copies) /\ OneLinkEach(returned.copies)
    /\ \A a \in results : OneLinkEach(a.copies)

\* Row r is still listed.  The terms before this one, and the pages before
\* this one, have left copies for it where they find it.
Awaited(r, words, term, page, copies) ==
  /\ r \in Listed(catalog)
  /\ \A t \in 1..(term - 1) : Suits(words, t, r) => Covered(copies, r)
  /\ Suits(words, term, r) =>
       Covered(copies, r) \/ ToCome(r, words, term, page)

\* So it is with each row that was listed when the call began.
AllAwaited ==
  \A r \in fetch.held :
    Awaited(r, fetch.words, fetch.term, fetch.page, fetch.copies)

\* A call whose catalogue has lost nothing awaits what it has not fetched, and
\* what was returned or cached is whole.
FetchInv ==
  /\ setup \in Setups /\ catalog \in Seq(Rows)
  /\ FetchShape
  /\ LinksInv
  /\ fetch.pc # "idle" /\ fetch.clean /\ Paged(setup) /\ Understood(setup)
       => AllAwaited
  /\ Whole(returned) /\ \A a \in results : Whole(a)

\* A bounded set of numbers has a first one.
LEMMA First ==
  ASSUME NEW n \in Nat, NEW S, S \subseteq 0..n, S # {}
  PROVE  \E i \in S : \A j \in S : i <= j
<1> DEFINE upTo(i) == {j \in S : j <= i}
           T == {upTo(i) : i \in S}
<1>1. IsFiniteSet(0..n)
  BY FS_Interval
<1>2. IsFiniteSet(S)
  BY <1>1, FS_Subset
<1>3. T \subseteq FiniteSubsetsOf(S)
  <2>1. \A i \in S : IsFiniteSet(upTo(i))
    BY <1>2, FS_Subset
  <2>2. QED BY <2>1 DEF FiniteSubsetsOf
<1>4. T # {}
  OBVIOUS
<1>5. PICK x \in T : \A y \in T : ~(<<y, x>> \in StrictSubsetOrdering(S))
  <2>1. IsWellFoundedOn(StrictSubsetOrdering(S), FiniteSubsetsOf(S))
    BY FS_StrictSubsetOrderingWellFounded
  <2> HIDE DEF T
  <2>2. QED BY <1>3, <1>4, <2>1, WFMin
<1>6. PICK i \in S : x = upTo(i)
  OBVIOUS
<1>7. ASSUME NEW j \in S, j < i
      PROVE  FALSE
  <2>1. upTo(j) \in T /\ upTo(j) \in SUBSET S /\ x \in SUBSET S
    BY <1>6
  <2>2. /\ i \in Int /\ j \in Int /\ S \subseteq Int
    OBVIOUS
  <2>3. \A k \in S : k <= j => k <= i
    BY <1>7, <2>2
  <2>4. i \notin upTo(j) /\ i \in upTo(i)
    BY <1>7, <2>2
  <2>5. <<upTo(j), x>> \in StrictSubsetOrdering(S)
    BY <1>6, <2>1, <2>3, <2>4 DEF StrictSubsetOrdering
  <2>6. QED BY <1>5, <2>1, <2>5
<1>8. QED BY <1>7

\* The places found are finitely many, and so are those up to one of them.
LEMMA RankType ==
  ASSUME NEW n \in Nat, NEW S, S \subseteq 1..n, NEW i \in Int
  PROVE  /\ IsFiniteSet(S) /\ Cardinality(S) \in Nat /\ Cardinality(S) <= n
         /\ IsFiniteSet({j \in S : j <= i}) /\ Rank(S, i) \in Nat
         /\ Rank(S, i) <= Cardinality(S)
<1>1. IsFiniteSet(1..n) /\ Cardinality(1..n) = n
  BY FS_Interval
<1>2. IsFiniteSet(S) /\ Cardinality(S) <= n
  BY <1>1, FS_Subset
<1>3. IsFiniteSet({j \in S : j <= i}) /\ Cardinality({j \in S : j <= i}) <= Cardinality(S)
  BY <1>2, FS_Subset
<1>4. Cardinality(S) \in Nat /\ Cardinality({j \in S : j <= i}) \in Nat
  BY <1>2, <1>3, FS_CardinalityType
<1>5. QED BY <1>1, <1>2, <1>3, <1>4 DEF Rank

\* One more place counts for one more.
LEMMA RankStep ==
  ASSUME NEW n \in Nat, NEW S, S \subseteq 1..n, NEW i \in Int
  PROVE  /\ i \in S => Rank(S, i) = Rank(S, i - 1) + 1
         /\ i \notin S => Rank(S, i) = Rank(S, i - 1)
<1> DEFINE before == {j \in S : j <= i - 1}
           upTo == {j \in S : j <= i}
<1>1. IsFiniteSet(before) /\ Rank(S, i - 1) = Cardinality(before)
      /\ Rank(S, i) = Cardinality(upTo)
  BY RankType DEF Rank
<1>2. \A j \in S : j \in Int
  OBVIOUS
<1>3. \A j \in S : j <= i <=> (j <= i - 1 \/ j = i)
  BY <1>2
<1>4. CASE i \in S
  <2>1. ~(i <= i - 1)
    OBVIOUS
  <2>2. upTo = before \cup {i} /\ i \notin before
    BY <1>3, <1>4, <2>1, Zenon
  <2> HIDE DEF before, upTo
  <2>3. QED BY <1>1, <1>4, <2>2, FS_AddElement
<1>5. CASE i \notin S
  <2>1. upTo = before
    BY <1>3, <1>5, Zenon
  <2>2. QED BY <1>1, <1>5, <2>1
<1>6. QED BY <1>4, <1>5

\* When some place ranks behind m, one of them ranks next after m.
LEMMA RankReached ==
  ASSUME NEW n \in Nat, NEW S, S \subseteq 1..n, NEW m \in Nat,
         NEW k \in S, m < Rank(S, k)
  PROVE  \E i \in S : Rank(S, i) = m + 1
<1> DEFINE T == {i \in 0..n : m < Rank(S, i)}
<1>1. k \in T
  OBVIOUS
<1>2. PICK i \in T : \A j \in T : i <= j
  BY <1>1, First
<1>3. i \in 0..n /\ m < Rank(S, i)
  BY <1>2
<1>4. Rank(S, i) \in Nat /\ Rank(S, i - 1) \in Nat
  <2>1. i \in Int /\ i - 1 \in Int
    BY <1>3
  <2>2. QED BY <2>1, RankType
<1>5. i # 0
  <2>1. \A j \in S : ~(j <= 0)
    OBVIOUS
  <2>2. {j \in S : j <= 0} = {}
    BY <2>1, Zenon
  <2>3. Rank(S, 0) = 0
    BY <2>2, FS_EmptySet DEF Rank
  <2>4. QED BY <1>3, <2>3
<1>6. Rank(S, i - 1) <= m
  <2>1. i - 1 \in 0..n /\ ~(i <= i - 1)
    BY <1>3, <1>5
  <2>2. i - 1 \notin T
    BY <1>2, <2>1
  <2>3. QED BY <1>4, <2>1, <2>2
<1>7. i \in Int
  BY <1>3
<1>8. /\ i \in S => Rank(S, i) = Rank(S, i - 1) + 1
      /\ i \notin S => Rank(S, i) = Rank(S, i - 1)
  BY <1>7, RankStep
<1>9. i \in S /\ Rank(S, i) = m + 1
  BY <1>3, <1>4, <1>6, <1>8
<1>10. QED BY <1>9

\* Without a gap, places are their own ranks.
LEMMA RankOfAll ==
  ASSUME NEW n \in Nat, NEW i \in 1..n
  PROVE  Rank(1..n, i) = i
<1>1. {j \in 1..n : j <= i} = 1..i
  OBVIOUS
<1>2. Cardinality(1..i) = i
  BY FS_Interval
<1>3. QED BY <1>1, <1>2 DEF Rank

\* What the searches that follow pages have in common.
LEMMA SearchFacts ==
  ASSUME NEW s
  PROVE  /\ Search(s).unique \in BOOLEAN
         /\ Search(s).paging = "totals" <=> s.kind = "ngo"
         /\ Search(s).paging = "totals" => ~Search(s).sized
         /\ Search(s).paging \in {"totals", "parsed", "none"}
         /\ Search(s).unique => Search(s).tagged
         /\ Search(s).paging # "none" => Search(s).kept = Rows
BY DEF Search, NgoSearch, FoundationSearch, GrantsSearch, CsrSearch, CrowdSearch,
       BaseSearch

\* A page has room for a row.
LEMMA SizeType ==
  ASSUME NEW s
  PROVE  Size(s) \in Nat \ {0}
BY FetchAssumption DEF Size

\* The pages before this one, and those up to it.
LEMMA PageBounds ==
  ASSUME NEW size \in Nat \ {0}, NEW page \in Nat \ {0}
  PROVE  /\ (page - 1) * size \in Nat /\ page * size \in Nat
         /\ page * size = (page - 1) * size + size
         /\ (page + 1 - 1) * size = page * size
OBVIOUS

\* A search finds places of the catalogue; one without terms finds them all.
LEMMA FoundPlaces ==
  ASSUME catalog \in Seq(Rows), NEW words, NEW term
  PROVE  /\ Found(setup, words, term) \subseteq 1..Len(catalog)
         /\ Len(catalog) \in Nat
         /\ Search(setup).paging = "parsed" =>
              Found(setup, words, term) = 1..Len(catalog)
<1>1. DOMAIN catalog = 1..Len(catalog) /\ Len(catalog) \in Nat
  OBVIOUS
<1>2. Search(setup).paging = "parsed" => setup.kind # "ngo"
  BY SearchFacts
<1>3. QED BY <1>1, <1>2 DEF Found

\* A search ends after a page only when nothing it finds is behind that page.
LEMMA NothingBehind ==
  ASSUME catalog \in Seq(Rows), setup \in Setups, Paged(setup),
         NEW words, NEW term, NEW page \in Nat \ {0},
         NEW found, found = Found(setup, words, term),
         NEW rows, rows = Cardinality(PageOf(found, Size(setup), page)),
         NEW next, next = Following(setup, rows, Cardinality(found), page)
  PROVE  /\ next \in {0, page + 1}
         /\ next = 0 => \A i \in found : Rank(found, i) <= page * Size(setup)
<1> DEFINE n == Len(catalog)
           size == Size(setup)
           before == (page - 1) * size
           upTo == page * size
           sent == PageOf(found, size, page)
<1>1. /\ found \subseteq 1..n /\ n \in Nat
      /\ Search(setup).paging = "parsed" => found = 1..n
  BY FoundPlaces
<1>2. size \in Nat \ {0}
  BY SizeType
<1>3. before \in Nat /\ upTo \in Nat /\ upTo = before + size
  BY <1>2, PageBounds
<1>4. sent = {i \in found : before < Rank(found, i) /\ Rank(found, i) <= upTo}
  BY DEF PageOf
<1>5. setup.style \in Styles
  BY FetchAssumption DEF SetupType
<1> HIDE DEF n, size, before, upTo, sent
<1>6. /\ IsFiniteSet(found) /\ Cardinality(found) \in Nat
      /\ \A i \in found : Rank(found, i) \in Nat /\ Rank(found, i) <= Cardinality(found)
  <2>1. \A i \in found : i \in Int
    BY <1>1
  <2>2. \A i \in Int : /\ IsFiniteSet(found) /\ Cardinality(found) \in Nat
                       /\ Rank(found, i) \in Nat /\ Rank(found, i) <= Cardinality(found)
    BY <1>1, RankType
  <2>3. 0 \in Int
    OBVIOUS
  <2>4. IsFiniteSet(found) /\ Cardinality(found) \in Nat
    BY <2>2, <2>3
  <2>5. \A i \in found : Rank(found, i) \in Nat /\ Rank(found, i) <= Cardinality(found)
    BY <2>1, <2>2
  <2>6. QED BY <2>4, <2>5
<1>7. IsFiniteSet(sent) /\ rows \in Nat
  <2>1. sent \subseteq found
    BY <1>4
  <2>2. IsFiniteSet(sent)
    BY <1>6, <2>1, FS_Subset
  <2>3. Cardinality(sent) \in Nat
    BY <2>2, FS_CardinalityType
  <2>4. rows = Cardinality(sent)
    BY DEF sent, size
  <2>5. QED BY <2>2, <2>3, <2>4
<1>8. CASE Search(setup).paging = "totals"
  <2>1. setup.style # "length"
    BY <1>8 DEF Paged
  <2>2. next = NextNgoPage(setup, rows, Cardinality(found), page) /\ size = ServerPage
    BY <1>8, SearchFacts DEF Following, Size, size
  <2>3. next \in {0, page + 1}
    BY <2>2 DEF NextNgoPage
  <2>4. ASSUME next = 0, NEW k \in found
        PROVE  Rank(found, k) <= upTo
    <3>1. rows = 0 \/ ~(upTo < Cardinality(found))
      BY <2>1, <2>2, <2>4 DEF NextNgoPage, upTo
    <3>2. CASE ~(upTo < Cardinality(found))
      BY <1>3, <1>6, <3>2
    <3>3. CASE rows = 0
      <4>1. sent = {}
        BY <1>7, <3>3, FS_EmptySet DEF sent, size
      <4>2. SUFFICES ASSUME upTo < Rank(found, k)
                     PROVE  FALSE
        BY <1>3, <1>6
      <4>3. before < Rank(found, k)
        BY <1>2, <1>3, <1>6, <4>2
      <4>4. PICK i \in found : Rank(found, i) = before + 1
        BY <1>1, <1>3, <4>3, RankReached
      <4>5. i \in sent
        BY <1>2, <1>3, <1>4, <4>4
      <4>6. QED BY <4>1, <4>5
    <3>4. QED BY <3>1, <3>2, <3>3
  <2>5. QED BY <2>3, <2>4 DEF upTo, size
<1>9. CASE Search(setup).paging = "parsed"
  <2>1. next = NextPage(setup, rows, Cardinality(found), page)
    BY <1>9 DEF Following
  <2>2. next \in {0, page + 1}
    BY <2>1 DEF NextPage
  <2>3. found = 1..n
    BY <1>1, <1>9
  <2>4. Cardinality(found) = n /\ \A i \in found : Rank(found, i) = i
    BY <1>1, <2>3, FS_Interval, RankOfAll
  <2>5. ASSUME next = 0, NEW k \in found
        PROVE  Rank(found, k) <= upTo
    <3>1. SUFFICES ASSUME upTo < n
                   PROVE  FALSE
      BY <1>1, <1>3, <2>3, <2>4
    <3>2. setup.style = "length" /\ rows < PageSize
      <4>1. upTo < Cardinality(found)
        BY <2>4, <3>1
      <4>2. next = 0
        BY <2>5
      <4>3. page + 1 # 0
        OBVIOUS
      <4>4. page * Size(setup) < Cardinality(found)
        BY <4>1 DEF upTo, size
      <4>5. ~(rows >= PageSize) /\ setup.style \notin {"total_pages", "has_more", "next_page"}
        BY <2>1, <4>2, <4>3, <4>4 DEF NextPage
      <4>6. PageSize \in Nat
        BY FetchAssumption
      <4>7. QED BY <1>7, <1>5, <4>5, <4>6 DEF Styles
    <3>3. size >= PageSize
      BY <1>9, <3>2 DEF Paged, size
    <3>4. sent = (before + 1)..upTo
      BY <1>1, <1>3, <1>4, <2>3, <2>4, <3>1
    <3>5. rows = size
      <4>1. Cardinality((before + 1)..upTo) = size
        <5>1. before + 1 \in Int /\ upTo \in Int /\ ~(before + 1 > upTo)
          BY <1>2, <1>3
        <5>2. QED BY <1>2, <1>3, <5>1, FS_Interval
      <4>2. rows = Cardinality(sent)
        BY DEF sent, size
      <4>3. QED BY <3>4, <4>1, <4>2
    <3>6. QED BY <1>2, <3>2, <3>3, <3>5, FetchAssumption
  <2>6. QED BY <2>2, <2>5 DEF upTo, size
<1>10. QED BY <1>8, <1>9 DEF Paged

\* The next page, or 0, is a number.
LEMMA FollowingType ==
  ASSUME NEW s, NEW rows, NEW total, NEW page \in Nat \ {0}
  PROVE  Following(s, rows, total, page) \in Nat
BY DEF Following, NextPage, NextNgoPage

\* Listing a row anywhere moves no row ahead of the pages already read.
LEMMA ListingKeeps ==
  ASSUME catalog \in Seq(Rows), setup' = setup,
         NEW r \in Rows, NEW at \in 1..(Len(catalog) + 1),
         catalog' = [i \in 1..(Len(catalog) + 1) |->
                       IF i < at THEN catalog[i]
                       ELSE IF i = at THEN r ELSE catalog[i - 1]],
         NEW words, NEW term, NEW page \in Nat \ {0}
  PROVE  /\ catalog' \in Seq(Rows)
         /\ Listed(catalog) \subseteq Listed(catalog')
         /\ \A x : ToCome(x, words, term, page)
                     => ToCome(x, words, term, page)'
<1>1. PICK n \in Nat : n = Len(catalog)
  OBVIOUS
<1>2. catalog \in [1..n -> Rows] /\ DOMAIN catalog = 1..n
  BY <1>1
<1>3. PICK c : c = catalog'
  OBVIOUS
<1>4. c = [i \in 1..(n + 1) |-> IF i < at THEN catalog[i]
                                ELSE IF i = at THEN r ELSE catalog[i - 1]]
      /\ at \in 1..(n + 1)
  BY <1>1, <1>3
<1>5. c \in [1..(n + 1) -> Rows] /\ DOMAIN c = 1..(n + 1)
  BY <1>2, <1>4
<1>6. c \in Seq(Rows)
  BY <1>5
<1> DEFINE shift(j) == IF j < at THEN j ELSE j + 1
<1>7. \A j \in 1..n : shift(j) \in 1..(n + 1) /\ c[shift(j)] = catalog[j]
  BY <1>2, <1>4
<1>8. \A j, k \in 1..n : /\ j <= k => shift(j) <= shift(k)
                         /\ shift(j) = shift(k) => j = k
  BY <1>4
<1> HIDE DEF shift
<1>9. Listed(catalog) \subseteq Listed(c)
  BY <1>2, <1>5, <1>7 DEF Listed
<1>10. ASSUME NEW x, ToCome(x, words, term, page)
       PROVE  ToCome(x, words, term, page)'
  <2>1. PICK S : S = Found(setup, words, term)
    OBVIOUS
  <2>2. PICK T : T = Found(setup, words, term)'
    OBVIOUS
  <2>3. /\ S \subseteq 1..n /\ T \subseteq 1..(n + 1)
        /\ \A j \in S : shift(j) \in T
    BY <1>2, <1>3, <1>5, <1>7, <2>1, <2>2 DEF Found
  <2>4. PICK i \in S : catalog[i] = x /\ (page - 1) * Size(setup) < Rank(S, i)
    BY <1>10, <2>1 DEF ToCome
  <2>5. shift(i) \in T /\ c[shift(i)] = x
    BY <1>7, <2>3, <2>4
  <2>6. n + 1 \in Nat /\ i \in Int /\ shift(i) \in Int
    <3>1. n + 1 \in Nat
      OBVIOUS
    <3>2. i \in 1..n
      BY <2>3
    <3>3. i \in Int
      BY <3>2
    <3>4. shift(i) \in 1..(n + 1)
      BY <2>3, <2>5
    <3>5. \A k \in 1..(n + 1) : k \in Int
      OBVIOUS
    <3>6. QED BY <3>1, <3>3, <3>4, <3>5
  <2>7. Rank(S, i) <= Rank(T, shift(i))
    <3> DEFINE A == {j \in S : j <= i}
               B == {j \in T : j <= shift(i)}
               f == [j \in A |-> shift(j)]
    <3>1. \A j \in A : shift(j) \in B
      BY <1>8, <2>3, <2>4
    <3>2. \A j, k \in A : shift(j) = shift(k) => j = k
      BY <1>8, <2>3
    <3>3. IsFiniteSet(B)
      BY <2>3, <2>6, RankType
    <3> HIDE DEF A, B
    <3>4. f \in [A -> B] /\ \A j, k \in A : f[j] = f[k] => j = k
      BY <3>1, <3>2
    <3> HIDE DEF f
    <3>5. f \in Injection(A, B)
      BY <3>4 DEF Injection, IsInjective
    <3>6. Cardinality(A) <= Cardinality(B)
      BY <3>3, <3>5, FS_Injection
    <3>7. QED BY <3>6 DEF Rank, A, B
  <2>8. /\ Rank(S, i) \in Nat /\ Rank(T, shift(i)) \in Nat
        /\ (page - 1) * Size(setup) \in Nat
    <3>1. Rank(S, i) \in Nat
      BY <2>3, <2>6, RankType
    <3>2. Rank(T, shift(i)) \in Nat
      BY <2>3, <2>6, RankType
    <3>3. Size(setup) \in Nat \ {0}
      BY SizeType
    <3>4. QED BY <3>1, <3>2, <3>3, PageBounds
  <2>9. (page - 1) * Size(setup) < Rank(T, shift(i))
    BY <2>4, <2>7, <2>8
  <2>10. QED BY <1>3, <2>2, <2>5, <2>9 DEF ToCome
<1>11. QED BY <1>3, <1>6, <1>9, <1>10

\* Before its first page is read, all that a search finds is to come.
LEMMA NewTerm ==
  ASSUME catalog \in Seq(Rows), NEW words, NEW term,
         NEW r \in Listed(catalog), Suits(words, term, r)
  PROVE  ToCome(r, words, term, 1)
<1>1. PICK S : S = Found(setup, words, term)
  OBVIOUS
<1>2. S \subseteq 1..Len(catalog) /\ Len(catalog) \in Nat
  BY <1>1, FoundPlaces
<1>3. PICK i \in DOMAIN catalog : catalog[i] = r
  BY DEF Listed
<1>4. i \in S
  BY <1>1, <1>3 DEF Found, Suits
<1>5. i \in Int /\ i - 1 \in Int
  BY <1>2, <1>4
<1>6. Rank(S, i) = Rank(S, i - 1) + 1 /\ Rank(S, i - 1) \in Nat
  BY <1>2, <1>4, <1>5, RankStep, RankType
<1>7. (1 - 1) * Size(setup) = 0
  BY SizeType
<1>8. QED BY <1>1, <1>3, <1>4, <1>6, <1>7 DEF ToCome

\* The terms of a search for some words are numbered from 1.
LEMMA TermsAreMany ==
  ASSUME NEW words, words # {}
  PROVE  DOMAIN Terms(words) = 1..Len(Terms(words)) /\ Len(Terms(words)) \in Nat
<1> DEFINE places == {i \in DOMAIN WordOrder : WordOrder[i] \in words}
<1>1. WordOrder \in Seq(Words) /\ TermLimit \in Nat
  BY FetchAssumption
<1>2. places \subseteq 1..Len(WordOrder) /\ Len(WordOrder) \in Nat /\ 0 \in Int
  BY <1>1
<1>3. Cardinality(places) \in Nat
  BY <1>2, RankType
<1>4. PICK n \in Nat : n = IF Cardinality(places) < TermLimit
                             THEN Cardinality(places) ELSE TermLimit
  BY <1>1, <1>3
<1>5. Terms(words) = [k \in 1..n |->
        WordOrder[CHOOSE i \in places : Rank(places, i) = k]]
  BY <1>4, Zenon DEF Terms
<1> HIDE DEF places
<1>6. DOMAIN Terms(words) = 1..n
  BY <1>5
<1>7. Len(Terms(words)) = n
  BY <1>5
<1>8. QED BY <1>6, <1>7

-----------------------------------------------------------------------------
(* What a step of the search leaves. *)

\* What holds of a call, and of the results, goes by the setup.
LEMMA SetupKeeps ==
  ASSUME setup' = setup
  PROVE  /\ \A a : Whole(a)' <=> Whole(a)
         /\ \A copies, r : Covered(copies, r)' <=> Covered(copies, r)
         /\ \A words, term, r : Suits(words, term, r)' <=> Suits(words, term, r)
         /\ Search(setup)' = Search(setup) /\ Size(setup)' = Size(setup)
         /\ Paged(setup)' <=> Paged(setup)
         /\ Understood(setup)' <=> Understood(setup)
<1>1. \A a : Whole(a)' <=> Whole(a)
  BY DEF Whole
<1>2. \A copies, r : Covered(copies, r)' <=> Covered(copies, r)
  BY DEF Covered
<1>3. \A words, term, r : Suits(words, term, r)' <=> Suits(words, term, r)
  BY DEF Suits
<1>4. QED BY <1>1, <1>2, <1>3

\* A call that is over leaves nothing behind but its result.
LEMMA ReturnKeeps ==
  ASSUME FetchInv, setup' = setup, catalog' = catalog,
         NEW status, NEW words, NEW copies, NEW clean,
         Return(status, words, copies, clean),
         Search(setup).unique => OneLinkEach(copies),
         NEW a, a = [status |-> status, words |-> words, copies |-> copies,
                     held |-> fetch.held, clean |-> clean],
         Whole(a)
  PROVE  FetchInv'
<1>1. /\ fetch' = NoFetch /\ returned' = a
      /\ \A b \in results' : b \in results \/ b = a
  BY DEF Return
<1>2. FetchShape' /\ fetch'.pc = "idle" /\ fetch'.copies = {}
  BY <1>1 DEF FetchShape, NoFetch
<1>3. LinksInv'
  <2>1. \A b \in results' : Search(setup).unique => OneLinkEach(b.copies)
    BY <1>1 DEF FetchInv, LinksInv
  <2>2. OneLinkEach({})
    BY DEF OneLinkEach
  <2>3. Search(setup).unique => OneLinkEach(returned'.copies)
    BY <1>1
  <2>4. QED BY <1>2, <2>1, <2>2, <2>3 DEF LinksInv
<1>4. Whole(returned)' /\ \A b \in results' : Whole(b)'
  BY <1>1, SetupKeeps DEF FetchInv
<1>5. QED BY <1>2, <1>3, <1>4 DEF FetchInv

\* What has been gone through, of the rows of a call, for the terms so far.
Through(copies) ==
  \A r \in fetch.held :
    /\ r \in Listed(catalog)
    /\ \A t \in 1..fetch.term :
         Suits(fetch.words, t, r) => Covered(copies, r)

\* When the pages of a term are through, the next term begins, or what has
\* been fetched is the result: it has every row that was sought.
LEMMA TermOverKeeps ==
  ASSUME FetchInv, setup' = setup, catalog' = catalog, fetch.pc # "idle",
         NEW copies, NEW clean \in BOOLEAN, TermOver(copies, clean),
         Search(setup).unique => OneLinkEach(copies),
         clean /\ Paged(setup) /\ Understood(setup) => Through(copies)
  PROVE  FetchInv'
<1>1. PICK words, term, held : /\ words = fetch.words /\ term = fetch.term
                               /\ held = fetch.held
  OBVIOUS
<1>2. FetchShape /\ term \in Nat \ {0} /\ catalog \in Seq(Rows)
  BY <1>1 DEF FetchInv, FetchShape
<1>3. CASE Ask(term + 1, 1, 1, copies, clean) /\ UNCHANGED <<results, returned>>
  <2>1. /\ DOMAIN fetch' = DOMAIN fetch
        /\ fetch'.pc = "calling" /\ fetch'.words = words /\ fetch'.held = held
        /\ fetch'.term = term + 1 /\ fetch'.page = 1
        /\ fetch'.copies = copies /\ fetch'.clean = clean
    BY <1>1, <1>2, <1>3 DEF Ask, FetchShape, NoFetch
  <2>2. FetchShape'
    BY <1>2, <2>1 DEF FetchShape
  <2>3. LinksInv'
    BY <1>3, <2>1, SetupKeeps DEF FetchInv, LinksInv
  <2>4. Whole(returned)' /\ \A a \in results' : Whole(a)'
    BY <1>3, SetupKeeps DEF FetchInv
  <2>5. ASSUME clean, Paged(setup), Understood(setup)
        PROVE  AllAwaited'
    <3>1. Through(copies)
      BY <2>5
    <3>2. SUFFICES ASSUME NEW r \in held
                   PROVE  Awaited(r, words, term + 1, 1, copies)'
      BY <2>1 DEF AllAwaited
    <3>3. r \in Listed(catalog)
      BY <1>1, <3>1, <3>2 DEF Through
    <3>4. \A t \in 1..term : Suits(words, t, r) => Covered(copies, r)
      BY <1>1, <3>1, <3>2 DEF Through
    <3>5. term + 1 - 1 = term
      BY <1>2
    <3>6. ASSUME Suits(words, term + 1, r)
          PROVE  ToCome(r, words, term + 1, 1)'
      <4>1. ToCome(r, words, term + 1, 1)
        BY <1>2, <3>3, <3>6, NewTerm
      <4>2. QED BY <4>1 DEF ToCome, Found
    <3>7. /\ \A t \in 1..term : Suits(words, t, r)' => Covered(copies, r)'
          /\ Suits(words, term + 1, r)' => ToCome(r, words, term + 1, 1)'
      BY <3>4, <3>6, SetupKeeps
    <3>8. r \in Listed(catalog')
      BY <3>3
    <3>9. QED BY <1>2, <3>5, <3>7, <3>8 DEF Awaited
  <2>6. (fetch'.pc # "idle" /\ fetch'.clean /\ Paged(setup)' /\ Understood(setup)')
          => AllAwaited'
    BY <2>1, <2>5, SetupKeeps
  <2>7. QED BY <1>2, <2>2, <2>3, <2>4, <2>6 DEF FetchInv
<1>4. CASE /\ setup.kind = "ngo" => term >= Len(Terms(words))
           /\ Finish(copies, clean)
  <2>1. PICK passing : passing = {c \in copies : PassesFilter(setup, words, c.row)}
    OBVIOUS
  <2>2. PICK a : a = [status |-> "remote", words |-> words, copies |-> passing,
                      held |-> held, clean |-> clean]
    OBVIOUS
  <2>3. Return("remote", words, passing, clean)
    BY <1>1, <1>4, <2>1 DEF Finish
  <2>4. Search(setup).unique => OneLinkEach(passing)
    BY <2>1 DEF OneLinkEach
  <2>5. ASSUME clean, Paged(setup), Understood(setup),
               NEW r \in held, Sought(setup, words, r)
        PROVE  \E c \in passing : Link(c.row) = Link(r)
    <3>1. \A t \in 1..term : Suits(words, t, r) => Covered(copies, r)
      BY <1>1, <2>5 DEF Through
    <3>2. \E t \in 1..term : Suits(words, t, r)
      <4>1. CASE setup.kind = "ngo" /\ words # {}
        <5>1. PICK t \in DOMAIN Terms(words) : Terms(words)[t] \in WordsOf[r]
          BY <2>5, <4>1 DEF Sought
        <5>2. DOMAIN Terms(words) = 1..Len(Terms(words)) /\ Len(Terms(words)) \in Nat
          BY <4>1, TermsAreMany
        <5>3. t \in 1..term
          BY <1>2, <1>4, <4>1, <5>1, <5>2
        <5>4. QED BY <5>1, <5>3 DEF Suits
      <4>2. CASE ~(setup.kind = "ngo" /\ words # {})
        BY <1>2, <4>2 DEF Suits
      <4>3. QED BY <4>1, <4>2
    <3>3. Covered(copies, r)
      BY <3>1, <3>2
    <3>4. CASE Search(setup).unique
      <4>1. PICK c \in copies : Link(c.row) = Link(r)
        BY <3>3, <3>4 DEF Covered
      <4>2. PassesFilter(setup, words, c.row)
        BY <3>4, SearchFacts DEF PassesFilter
      <4>3. QED BY <2>1, <4>1, <4>2
    <3>5. CASE ~Search(setup).unique
      <4>1. PICK c \in copies : c.row = r
        BY <3>3, <3>5 DEF Covered
      <4>2. PassesFilter(setup, words, c.row)
        BY <2>5, <4>1 DEF Sought
      <4>3. QED BY <2>1, <4>1, <4>2
    <3>6. QED BY <3>4, <3>5
  <2>6. Whole(a)
    BY <2>2, <2>5 DEF Whole
  <2>7. QED BY <1>1, <2>2, <2>3, <2>4, <2>6, ReturnKeeps
<1>5. QED BY <1>1, <1>3, <1>4 DEF TermOver

\* A step that leaves the call and the catalogue alone leaves the rest to come.
LEMMA StillAwaited ==
  ASSUME FetchInv, setup' = setup, catalog' = catalog,
         fetch.pc = "idle" => fetch'.pc = "idle",
         fetch'.words = fetch.words, fetch'.held = fetch.held,
         fetch'.term = fetch.term, fetch'.page = fetch.page,
         fetch'.copies = fetch.copies, fetch'.clean = fetch.clean
  PROVE  (fetch'.pc # "idle" /\ fetch'.clean /\ Paged(setup)' /\ Understood(setup)')
           => AllAwaited'
<1>1. PICK words, term, page, held, copies :
        /\ words = fetch.words /\ term = fetch.term /\ page = fetch.page
        /\ held = fetch.held /\ copies = fetch.copies
  OBVIOUS
<1>2. /\ fetch'.words = words /\ fetch'.term = term /\ fetch'.page = page
      /\ fetch'.held = held /\ fetch'.copies = copies
  BY <1>1
<1>3. ASSUME NEW r, Awaited(r, words, term, page, copies)
      PROVE  Awaited(r, words, term, page, copies)'
  BY <1>3, SetupKeeps DEF Awaited, ToCome, Found
<1>4. AllAwaited => AllAwaited'
  BY <1>1, <1>2, <1>3 DEF AllAwaited
<1>5. QED BY <1>4, SetupKeeps DEF FetchInv

\* The copies kept of a page have links of their own, and none seen before.
LEMMA UnseenIsNew ==
  ASSUME catalog \in Seq(Rows), NEW copies, OneLinkEach(copies),
         NEW page, page \subseteq 1..Len(catalog)
  PROVE  OneLinkEach(copies \cup Unseen(copies, page))
<1> DEFINE new == {k \in page :
             /\ \A c \in copies : Link(c.row) # Link(catalog[k])
             /\ \A j \in page : j < k => Link(catalog[j]) # Link(catalog[k])}
<1>1. Unseen(copies, page) = {Copy(i) : i \in new}
  BY DEF Unseen
<1>2. \A k \in page : k \in Int
  OBVIOUS
<1>3. \A k \in page : Copy(k).row = catalog[k]
  BY DEF Copy
<1>4. ASSUME NEW k \in new, NEW l \in new, Link(catalog[k]) = Link(catalog[l])
      PROVE  k = l
  <2>1. k \in Int /\ l \in Int /\ k \in page /\ l \in page
    BY <1>2
  <2>2. ~(k < l) /\ ~(l < k)
    BY <1>4, <2>1
  <2>3. QED BY <2>1, <2>2
<1>5. \A k \in new : k \in page /\ \A c \in copies : Link(c.row) # Link(catalog[k])
  OBVIOUS
<1> HIDE DEF new
<1>6. ASSUME NEW c \in copies \cup Unseen(copies, page),
             NEW d \in copies \cup Unseen(copies, page), Link(c.row) = Link(d.row)
      PROVE  c = d
  <2>1. c \in copies \/ \E k \in new : c = Copy(k) /\ c.row = catalog[k]
    BY <1>1, <1>3, <1>5
  <2>2. d \in copies \/ \E k \in new : d = Copy(k) /\ d.row = catalog[k]
    BY <1>1, <1>3, <1>5
  <2>3. CASE c \in copies /\ d \in copies
    BY <1>6, <2>3 DEF OneLinkEach
  <2>4. CASE c \in copies /\ d \notin copies
    BY <1>5, <1>6, <2>2, <2>4
  <2>5. CASE c \notin copies /\ d \in copies
    BY <1>5, <1>6, <2>1, <2>5
  <2>6. CASE c \notin copies /\ d \notin copies
    BY <1>4, <1>6, <2>1, <2>2, <2>6
  <2>7. QED BY <2>3, <2>4, <2>5, <2>6
<1>7. QED BY <1>6 DEF OneLinkEach

\* A row of the page just read has its copy.
LEMMA PageCovers ==
  ASSUME catalog \in Seq(Rows), Paged(setup), NEW copies,
         NEW page, page \subseteq 1..Len(catalog), NEW i \in page
  PROVE  Covered(copies \cup Kept(setup, copies, page), catalog[i])
<1>1. \A k \in page : Copy(k).row = catalog[k] /\ catalog[k] \in Rows
  BY DEF Copy
<1>2. CASE Search(setup).unique
  <2>1. Kept(setup, copies, page) = Unseen(copies, page)
    BY <1>2 DEF Kept
  <2>2. SUFFICES ASSUME \A c \in copies : Link(c.row) # Link(catalog[i])
                 PROVE  \E c \in Unseen(copies, page) : Link(c.row) = Link(catalog[i])
    BY <1>2, <2>1 DEF Covered
  <2>3. PICK same : same = {k \in page : Link(catalog[k]) = Link(catalog[i])}
    OBVIOUS
  <2>4. PICK k \in same : \A j \in same : k <= j
    <3>1. 1..Len(catalog) \subseteq 0..Len(catalog) /\ Len(catalog) \in Nat
      OBVIOUS
    <3>2. same \subseteq page /\ i \in same
      BY <2>3
    <3>3. same \subseteq 0..Len(catalog) /\ same # {}
      BY <3>1, <3>2
    <3>4. QED BY <3>1, <3>3, First
  <2>5. k \in page /\ Link(catalog[k]) = Link(catalog[i])
    BY <2>3
  <2>6. \A j \in page : j < k => Link(catalog[j]) # Link(catalog[k])
    <3>1. \A j \in page : j \in Int
      OBVIOUS
    <3>2. \A j \in page : j < k => ~(k <= j)
      BY <2>5, <3>1
    <3>3. QED BY <2>3, <2>4, <2>5, <3>2
  <2>7. Copy(k) \in Unseen(copies, page)
    BY <2>2, <2>5, <2>6 DEF Unseen
  <2>8. QED BY <1>1, <2>5, <2>7
<1>3. CASE ~Search(setup).unique
  <2>1. Search(setup).kept = Rows
    BY SearchFacts DEF Paged
  <2>2. Copy(i) \in Kept(setup, copies, page)
    BY <1>1, <1>3, <2>1 DEF Kept, CopiesOf
  <2>3. QED BY <1>1, <1>3, <2>2 DEF Covered
<1>4. QED BY <1>2, <1>3

\* More copies cover no less.
LEMMA CoversMore ==
  ASSUME NEW copies, NEW more, copies \subseteq more, NEW r, Covered(copies, r)
  PROVE  Covered(more, r)
BY DEF Covered

\* Reading a page keeps the invariant: what it brings has copies, and the next
\* page begins where this one ends.
LEMMA PageArrivesKeeps ==
  ASSUME FetchInv, PageArrives
  PROVE  FetchInv'
<1>1. PICK words, term, page, held, seen, clean :
         /\ words = fetch.words /\ term = fetch.term /\ page = fetch.page
         /\ held = fetch.held /\ seen = fetch.copies /\ clean = fetch.clean
  OBVIOUS
<1>2. PICK size, found : size = Size(setup) /\ found = Found(setup, words, term)
  OBVIOUS
<1>3. PICK read : read = IF Understood(setup) THEN PageOf(found, size, page) ELSE {}
  OBVIOUS
<1>4. PICK next, copies :
         /\ next = Following(setup, Cardinality(read), Cardinality(found), page)
         /\ copies = seen \cup Kept(setup, seen, read)
  OBVIOUS
<1>5. /\ FetchShape /\ setup \in Setups /\ catalog \in Seq(Rows)
      /\ term \in Nat \ {0} /\ page \in Nat \ {0} /\ clean \in BOOLEAN
  BY <1>1 DEF FetchInv, FetchShape
<1>6. /\ setup' = setup /\ catalog' = catalog /\ fetch.pc = "calling"
      /\ \/ /\ next # 0
            /\ Ask(term, next, 1, copies, clean)
            /\ UNCHANGED <<results, returned>>
         \/ /\ next = 0
            /\ TermOver(copies, clean)
  BY <1>1, <1>2, <1>3, <1>4 DEF PageArrives
<1>7. found \subseteq 1..Len(catalog) /\ Len(catalog) \in Nat
  BY <1>2, <1>5, FoundPlaces
<1>8. read \subseteq 1..Len(catalog)
  BY <1>3, <1>7 DEF PageOf
<1>9. Search(setup).unique => OneLinkEach(copies)
  <2>1. ASSUME Search(setup).unique
        PROVE  OneLinkEach(seen \cup Unseen(seen, read))
    BY <1>1, <1>5, <1>8, <2>1, UnseenIsNew DEF FetchInv, LinksInv
  <2>2. QED BY <1>4, <2>1 DEF Kept
\* Of a search that must be whole, the row has its copy or is further on.
<1>10. ASSUME clean, Paged(setup), Understood(setup), NEW r \in held
       PROVE  /\ r \in Listed(catalog)
              /\ \A t \in 1..(term - 1) : Suits(words, t, r) => Covered(copies, r)
              /\ next \in {0, page + 1}
              /\ Suits(words, term, r) =>
                   \/ Covered(copies, r)
                   \/ next # 0 /\ ToCome(r, words, term, page + 1)
  <2>1. Awaited(r, words, term, page, seen)
    BY <1>1, <1>6, <1>10 DEF FetchInv, AllAwaited
  <2>2. seen \subseteq copies
    BY <1>4
  <2>3. \A t \in 1..(term - 1) : Suits(words, t, r) => Covered(copies, r)
    BY <2>1, <2>2, CoversMore DEF Awaited
  <2>4. read = PageOf(found, size, page)
    BY <1>3, <1>10
  <2>5. /\ next \in {0, page + 1}
        /\ next = 0 => \A i \in found : Rank(found, i) <= page * size
    BY <1>2, <1>4, <1>5, <1>10, <2>4, NothingBehind
  <2>6. ASSUME Suits(words, term, r), ~Covered(copies, r)
        PROVE  next # 0 /\ ToCome(r, words, term, page + 1)
    <3>1. ~Covered(seen, r)
      BY <2>2, <2>6, CoversMore
    <3>2. ToCome(r, words, term, page)
      BY <2>1, <2>6, <3>1 DEF Awaited
    <3>3. PICK i \in found : catalog[i] = r /\ (page - 1) * size < Rank(found, i)
      BY <1>2, <3>2 DEF ToCome
    <3>4. i \notin read
      BY <1>4, <1>5, <1>8, <1>10, <2>6, <3>3, PageCovers
    <3>5. ~(Rank(found, i) <= page * size)
      BY <2>4, <3>3, <3>4 DEF PageOf
    <3>6. Rank(found, i) \in Nat
      <4>1. i \in Int
        BY <1>7, <3>3
      <4>2. QED BY <1>7, <4>1, RankType
    <3>7. page * size \in Nat /\ (page + 1 - 1) * size = page * size
      BY <1>2, <1>5, SizeType, PageBounds
    <3>8. (page + 1 - 1) * size < Rank(found, i)
      BY <3>5, <3>6, <3>7
    <3>9. next # 0
      BY <2>5, <3>3, <3>5
    <3>10. ToCome(r, words, term, page + 1)
      <4>1. i \in Found(setup, words, term) /\ catalog[i] = r
        BY <1>2, <3>3
      <4>2. (page + 1 - 1) * Size(setup) < Rank(Found(setup, words, term), i)
        BY <1>2, <3>8
      <4>3. Size(setup) \in Nat /\ page + 1 \in Nat
        BY <1>5, SizeType
      <4>4. QED BY <1>5, <1>2, <3>6, <4>1, <4>2, <4>3 DEF ToCome
    <3>11. QED BY <3>9, <3>10
  <2>7. QED BY <2>1, <2>3, <2>5, <2>6 DEF Awaited
<1>11. CASE next = 0
  <2>1. ASSUME clean, Paged(setup), Understood(setup)
        PROVE  Through(copies)
    <3>1. SUFFICES ASSUME NEW r \in held, NEW t \in 1..term, Suits(words, t, r)
                   PROVE  Covered(copies, r)
      BY <1>1, <1>10, <2>1 DEF Through
    <3>2. t \in 1..(term - 1) \/ t = term
      BY <1>5
    <3>3. QED BY <1>10, <1>11, <2>1, <3>1, <3>2
  <2>2. QED BY <1>5, <1>6, <1>9, <1>11, <2>1, TermOverKeeps
<1>12. CASE next # 0
  <2>1. /\ DOMAIN fetch' = DOMAIN fetch
        /\ fetch'.pc = "calling" /\ fetch'.words = words /\ fetch'.held = held
        /\ fetch'.term = term /\ fetch'.page = next
        /\ fetch'.copies = copies /\ fetch'.clean = clean
    BY <1>1, <1>5, <1>6, <1>12 DEF Ask, FetchShape, NoFetch
  <2>2. next \in Nat \ {0}
    BY <1>5, <1>12, FollowingType, <1>4
  <2>3. FetchShape'
    BY <1>5, <2>1, <2>2 DEF FetchShape
  <2>4. UNCHANGED <<results, returned>>
    BY <1>6, <1>12
  <2>5. LinksInv'
    BY <1>6, <1>9, <2>1, <2>4, SetupKeeps DEF FetchInv, LinksInv
  <2>6. Whole(returned)' /\ \A a \in results' : Whole(a)'
    BY <1>6, <2>4, SetupKeeps DEF FetchInv
  <2>7. ASSUME clean, Paged(setup), Understood(setup)
        PROVE  AllAwaited'
    <3>1. SUFFICES ASSUME NEW r \in held
                   PROVE  Awaited(r, words, term, next, copies)'
      BY <2>1 DEF AllAwaited
    <3>2. next = page + 1
      BY <1>10, <1>12, <2>7
    <3>3. Awaited(r, words, term, page + 1, copies)
      BY <1>10, <1>12, <2>7 DEF Awaited
    <3>4. QED BY <1>6, <3>2, <3>3, SetupKeeps DEF Awaited, ToCome, Found
  <2>8. (fetch'.pc # "idle" /\ fetch'.clean /\ Paged(setup)' /\ Understood(setup)')
          => AllAwaited'
    BY <1>6, <2>1, <2>7, SetupKeeps
  <2>9. QED BY <1>5, <1>6, <2>3, <2>5, <2>6, <2>8 DEF FetchInv
<1>13. QED BY <1>11, <1>12

\* So does the beginning of a call, which awaits all that is listed.
LEMMA FetchBegins ==
  ASSUME FetchInv, NEW asked, FetchResult(asked)
  PROVE  FetchInv'
<1>1. PICK words : words = Expand(asked)
  OBVIOUS
<1>2. setup' = setup /\ catalog' = catalog /\ catalog \in Seq(Rows)
  BY DEF FetchResult, FetchInv
<1>3. CASE \E a \in results : returned' = a /\ UNCHANGED <<fetch, results>>
  <2>1. PICK a \in results : returned' = a
    BY <1>3
  <2>2. fetch' = fetch /\ results' = results
    BY <1>3
  <2>3. FetchShape' /\ LinksInv'
    BY <1>2, <2>1, <2>2 DEF FetchInv, FetchShape, LinksInv
  <2>4. Whole(returned)' /\ \A b \in results' : Whole(b)'
    BY <1>2, <2>1, <2>2, SetupKeeps DEF FetchInv
  <2>5. QED BY <1>2, <2>2, <2>3, <2>4, StillAwaited DEF FetchInv
<1>4. ASSUME NEW status \in {"demo", "degraded"},
             NEW demo \in {{}, {[row |-> "demo", term |-> 1, page |-> 1]}},
             Return(status, words, demo, TRUE)
      PROVE  FetchInv'
  <2>1. PICK a : a = [status |-> status, words |-> words, copies |-> demo,
                      held |-> fetch.held, clean |-> TRUE]
    OBVIOUS
  <2>2. a.status # "remote"
    BY <2>1
  <2>3. Whole(a) /\ OneLinkEach(demo)
    BY <2>2 DEF Whole, OneLinkEach
  <2>4. QED BY <1>2, <1>4, <2>1, <2>3, ReturnKeeps
<1>5. CASE /\ fetch' = [NoFetch EXCEPT !.pc = "calling", !.words = words,
                                       !.held = Listed(catalog)]
           /\ UNCHANGED <<results, returned>>
  <2>1. /\ DOMAIN fetch' = DOMAIN NoFetch /\ fetch'.pc = "calling"
        /\ fetch'.words = words /\ fetch'.held = Listed(catalog)
        /\ fetch'.term = 1 /\ fetch'.page = 1 /\ fetch'.copies = {}
        /\ fetch'.clean = TRUE
    BY <1>5 DEF NoFetch
  <2>2. fetch'.clean \in BOOLEAN
    BY <2>1
  <2>3. fetch'.pc \in {"idle", "calling", "backoff"}
    BY <2>1
  <2>4. fetch'.term \in Nat \ {0} /\ fetch'.page \in Nat \ {0}
    BY <2>1
  <2>5. DOMAIN fetch' = DOMAIN NoFetch
    BY <2>1
  <2>6. FetchShape'
    BY <2>2, <2>3, <2>4, <2>5 DEF FetchShape
  <2>7. OneLinkEach({})
    BY DEF OneLinkEach
  <2>8. LinksInv'
    BY <1>2, <1>5, <2>1, <2>7 DEF FetchInv, LinksInv
  <2>9. Whole(returned)' /\ \A b \in results' : Whole(b)'
    BY <1>2, <1>5, SetupKeeps DEF FetchInv
  <2>10. AllAwaited'
    <3>1. SUFFICES ASSUME NEW r \in Listed(catalog)
                   PROVE  Awaited(r, words, 1, 1, {})'
      BY <2>1 DEF AllAwaited
    <3>2. Suits(words, 1, r) => ToCome(r, words, 1, 1)
      BY <1>2, NewTerm
    <3>3. Awaited(r, words, 1, 1, {})
      <4>1. 1..(1 - 1) = {}
        OBVIOUS
      <4>2. QED BY <3>1, <3>2, <4>1 DEF Awaited
    <3>4. QED BY <1>2, <3>3, SetupKeeps DEF Awaited, ToCome, Found
  <2>11. QED BY <1>2, <2>6, <2>8, <2>9, <2>10 DEF FetchInv
<1>6. \/ \E a \in results : returned' = a /\ UNCHANGED <<fetch, results>>
      \/ \E status \in {"demo", "degraded"} :
           \E demo \in {{}, {[row |-> "demo", term |-> 1, page |-> 1]}} :
             Return(status, words, demo, TRUE)
      \/ /\ fetch' = [NoFetch EXCEPT !.pc = "calling", !.words = words,
                                     !.held = Listed(catalog)]
         /\ UNCHANGED <<results, returned>>
  BY <1>1, Zenon DEF FetchResult, BuildDegraded
<1>7. QED BY <1>3, <1>4, <1>5, <1>6

\* And so does every step.
LEMMA FetchNextKeeps ==
  ASSUME FetchInv, [FetchNext]_fetchVars
  PROVE  FetchInv'
<1>1. /\ FetchShape /\ LinksInv /\ catalog \in Seq(Rows)
      /\ Whole(returned) /\ \A a \in results : Whole(a)
  BY DEF FetchInv
<1>2. ASSUME NEW asked \in Asked, FetchResult(asked)
      PROVE  FetchInv'
  BY <1>2, FetchBegins
<1>3. CASE PageArrives
  BY <1>3, PageArrivesKeeps
<1>4. CASE EmptyReply
  <2>1. /\ TermOver(fetch.copies, FALSE) /\ fetch.pc # "idle"
        /\ setup' = setup /\ catalog' = catalog
    BY <1>4 DEF EmptyReply
  <2>2. Search(setup).unique => OneLinkEach(fetch.copies)
    BY <1>1 DEF LinksInv
  <2>3. PICK copies : copies = fetch.copies
    OBVIOUS
  <2>4. QED BY <2>1, <2>2, <2>3, TermOverKeeps
<1>5. CASE Failure
  <2>1. PICK words, a :
          /\ words = fetch.words
          /\ a = [status |-> "degraded", words |-> words, copies |-> {},
                  held |-> fetch.held, clean |-> TRUE]
    OBVIOUS
  <2>2. /\ Return("degraded", words, {}, TRUE)
        /\ setup' = setup /\ catalog' = catalog
    BY <1>5, <2>1 DEF Failure, BuildDegraded
  <2>3. a.status # "remote"
    BY <2>1
  <2>4. Whole(a) /\ OneLinkEach({})
    BY <2>3 DEF Whole, OneLinkEach
  <2>5. QED BY <2>1, <2>2, <2>4, ReturnKeeps
<1>6. CASE FailedAttempt \/ RetryPage
  <2>1. /\ DOMAIN fetch' = DOMAIN fetch
        /\ fetch.pc # "idle" /\ fetch'.pc \in {"calling", "backoff"}
        /\ fetch'.words = fetch.words /\ fetch'.held = fetch.held
        /\ fetch'.term = fetch.term /\ fetch'.page = fetch.page
        /\ fetch'.copies = fetch.copies /\ fetch'.clean = fetch.clean
    BY <1>1, <1>6 DEF FailedAttempt, RetryPage, Ask, FetchShape, NoFetch
  <2>2. UNCHANGED <<setup, catalog, results, returned>>
    BY <1>6 DEF FailedAttempt, RetryPage
  <2>3. FetchShape'
    BY <1>1, <2>1 DEF FetchShape
  <2>4. LinksInv'
    BY <1>1, <2>1, <2>2 DEF LinksInv
  <2>5. Whole(returned)' /\ \A b \in results' : Whole(b)'
    BY <1>1, <2>2, SetupKeeps
  <2>6. QED BY <2>1, <2>2, <2>3, <2>4, <2>5, StillAwaited DEF FetchInv
<1>7. CASE Expire \/ UNCHANGED fetchVars
  <2>1. /\ UNCHANGED <<setup, catalog, fetch, returned>>
        /\ results' = {} \/ results' = results
    BY <1>7 DEF Expire, fetchVars
  <2>2. FetchShape' /\ LinksInv'
    BY <1>1, <2>1 DEF FetchShape, LinksInv
  <2>3. Whole(returned)' /\ \A b \in results' : Whole(b)'
    BY <1>1, <2>1, SetupKeeps
  <2>4. QED BY <2>1, <2>2, <2>3, StillAwaited DEF FetchInv
<1>8. ASSUME NEW r \in Rows, ListRow(r)
      PROVE  FetchInv'
  <2>1. PICK at \in 1..(Len(catalog) + 1) :
          catalog' = [i \in 1..(Len(catalog) + 1) |->
                        IF i < at THEN catalog[i]
                        ELSE IF i = at THEN r ELSE catalog[i - 1]]
    BY <1>8 DEF ListRow
  <2>2. UNCHANGED <<setup, fetch, results, returned>>
    BY <1>8 DEF ListRow
  <2>3. FetchShape' /\ LinksInv'
    BY <1>1, <2>2 DEF FetchShape, LinksInv
  <2>4. Whole(returned)' /\ \A b \in results' : Whole(b)'
    BY <1>1, <2>2, SetupKeeps
  <2>5. \A words, term : \A page \in Nat \ {0} :
          /\ catalog' \in Seq(Rows)
          /\ Listed(catalog) \subseteq Listed(catalog')
          /\ \A x : ToCome(x, words, term, page) => ToCome(x, words, term, page)'
    BY <1>1, <2>1, <2>2, ListingKeeps
  <2>6. catalog' \in Seq(Rows)
    <3>1. 1 \in Nat \ {0}
      OBVIOUS
    <3>2. QED BY <2>5, <3>1
  <2>7. AllAwaited => AllAwaited'
    <3>1. PICK words, term, page, held, copies :
            /\ words = fetch.words /\ term = fetch.term /\ page = fetch.page
            /\ held = fetch.held /\ copies = fetch.copies
      OBVIOUS
    <3>2. page \in Nat \ {0}
      BY <1>1, <3>1 DEF FetchShape
    <3>3. ASSUME NEW x, Awaited(x, words, term, page, copies)
          PROVE  Awaited(x, words, term, page, copies)'
      <4>1. /\ Listed(catalog) \subseteq Listed(catalog')
            /\ ToCome(x, words, term, page) => ToCome(x, words, term, page)'
        BY <2>5, <3>2
      <4>2. QED BY <2>2, <3>3, <4>1, SetupKeeps DEF Awaited
    <3>4. /\ fetch'.words = words /\ fetch'.term = term /\ fetch'.page = page
          /\ fetch'.held = held /\ fetch'.copies = copies
      BY <2>2, <3>1
    <3>5. QED BY <3>1, <3>3, <3>4 DEF AllAwaited
  <2>8. QED BY <2>2, <2>3, <2>4, <2>6, <2>7, SetupKeeps DEF FetchInv
<1>9. CASE WithdrawRow
  <2>1. PICK at \in DOMAIN catalog :
          catalog' = [i \in 1..(Len(catalog) - 1) |->
                        IF i < at THEN catalog[i] ELSE catalog[i + 1]]
    BY <1>9 DEF WithdrawRow
  <2>2. /\ UNCHANGED <<setup, results, returned>>
        /\ fetch' = [fetch EXCEPT !.clean = (@ /\ fetch.pc = "idle")]
    BY <1>9 DEF WithdrawRow
  <2>3. /\ DOMAIN fetch' = DOMAIN fetch
        /\ fetch'.pc = fetch.pc /\ fetch'.term = fetch.term
        /\ fetch'.page = fetch.page /\ fetch'.copies = fetch.copies
        /\ fetch'.clean \in BOOLEAN
        /\ fetch'.pc # "idle" => ~fetch'.clean
    BY <1>1, <2>2 DEF FetchShape, NoFetch
  <2>4. catalog' \in Seq(Rows)
    <3>1. PICK n \in Nat : n = Len(catalog) /\ catalog \in [1..n -> Rows]
      BY <1>1
    <3>2. at \in 1..n /\ n - 1 \in Nat
      BY <2>1, <3>1
    <3>3. catalog' \in [1..(n - 1) -> Rows]
      BY <2>1, <3>1, <3>2
    <3>4. QED BY <3>2, <3>3
  <2>5. FetchShape' /\ LinksInv'
    BY <1>1, <2>2, <2>3 DEF FetchShape, LinksInv
  <2>6. Whole(returned)' /\ \A b \in results' : Whole(b)'
    BY <1>1, <2>2, SetupKeeps
  <2>7. QED BY <2>2, <2>3, <2>4, <2>5, <2>6 DEF FetchInv
<1>10. QED BY <1>2, <1>3, <1>4, <1>5, <1>6, <1>7, <1>8, <1>9
       DEF FetchNext, Respond

\* It holds at first.
LEMMA FetchInitEstablishes == FetchInit => FetchInv
<1>1. SUFFICES ASSUME FetchInit PROVE FetchInv
  OBVIOUS
<1>2. setup \in Setups /\ catalog \in Seq(Rows)
  BY <1>1, FetchAssumption DEF FetchInit
<1>3. FetchShape /\ fetch.pc = "idle" /\ fetch.copies = {} /\ results = {}
      /\ returned.copies = {} /\ returned.status = "none"
  BY <1>1 DEF FetchInit, FetchShape, NoFetch, NoResult
<1>4. LinksInv
  BY <1>3 DEF LinksInv, OneLinkEach
<1>5. Whole(returned)
  BY <1>3 DEF Whole
<1>6. QED BY <1>2, <1>3, <1>4, <1>5 DEF FetchInv

\* It holds always.
LEMMA FetchInvariant == FetchSpec => []FetchInv
BY FetchInitEstablishes, FetchNextKeeps, PTL DEF FetchSpec

\* A result that says it is remote has each row listed when the call began, by
\* its link: for any catalogue, page sizes, number of terms and retries, and
\* whatever is listed between the requests of _fetch_remote_result.
THEOREM RemoteIsWhole == FetchSpec => []RemoteAnswersAreWhole
<1>1. FetchInv => RemoteAnswersAreWhole
  BY DEF FetchInv, Whole, RemoteAnswersAreWhole
<1>2. QED BY <1>1, FetchInvariant, PTL

\* seen_urls keeps each portal_url once over all pages and terms.
THEOREM LinksStayUnique == FetchSpec => []LinksAreUnique
<1>1. FetchInv => LinksAreUnique
  BY DEF FetchInv, LinksInv, OneLinkEach, LinksAreUnique
<1>2. QED BY <1>1, FetchInvariant, PTL

=============================================================================
