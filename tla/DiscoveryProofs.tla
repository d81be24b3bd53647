-------------------------- MODULE DiscoveryProofs --------------------------
(***************************************************************************)
(* Proofs about Discovery: its type, that an INSERT meets a row of its     *)
(* signature only after a signal, and that what a run found is in the      *)
(* table when it ends.                                                     *)
(*                                                                         *)
(* Neither of the last two is inductive.  Between the SELECT and the       *)
(* INSERT of a candidate, InHand says what the SELECT still tells of the   *)
(* database; and half way, Found says that the candidates a run has gone   *)
(* through are in the table or in its own open transaction, which no other *)
(* run can undo.  Exclusive is the write lock's part of both.              *)
(***************************************************************************)
EXTENDS Discovery, TLAPS

\* A run that handles a fallback is at a position of the connector order, one
\* that has looked for a candidate at one of its candidates.
Placed(r) ==
  /\ r.phase \in {"upgrade", "fallback"} => r.at \in DOMAIN Order
  /\ r.phase = "insert" => r.at \in DOMAIN r.candidates
AllPlaced == \A p \in Runs : Placed(run[p])

RunType == [phase : Phases, mode : Modes, at : Nat \ {0},
            result : [Connectors -> Results], loaded : Rows,
            candidates : Seq(Items), found : SUBSET Items,
            existing : BOOLEAN, released : BOOLEAN]

IndType == TypeOK /\ AllPlaced

-----------------------------------------------------------------------------
(* Type correctness                                                          *)

LEMMA OrderFacts ==
  /\ Len(Order) \in Nat /\ DOMAIN Order = 1..Len(Order)
  /\ \A i \in 1..Len(Order) : Order[i] \in Connectors
  /\ 1 \in 1..MaxVersion /\ 1 \in Versions /\ 0 \in Versions
  BY DiscoveryAssumption DEF Connectors, Versions

LEMMA IdleType == ASSUME NEW m \in Modes PROVE Idle(m) \in RunType
<1>1. /\ Awaited \in Results /\ NoRow \in Rows
  BY OrderFacts DEF Awaited, Results, NoRow, Rows
<1>2. <<>> \in Seq(Items)
  OBVIOUS
<1>3. QED BY <1>1, <1>2 DEF Idle, RunType, Phases, Ended

LEMMA InitType == Init => IndType
<1> SUFFICES ASSUME Init PROVE IndType
  OBVIOUS
<1>1. (CHOOSE m \in Modes : TRUE) \in Modes
  BY DiscoveryAssumption
<1>2. run \in [Runs -> RunType]
  BY <1>1, IdleType DEF Init
<1>3. table \in [Connectors -> Rows]
  BY OrderFacts DEF Init, Rows, NoRow
<1>4. TypeOK
  BY <1>2, <1>3, OrderFacts DEF Init, TypeOK, RunType
<1>5. AllPlaced
  BY DEF Init, AllPlaced, Placed, Idle
<1>6. QED BY <1>4, <1>5 DEF IndType

\* A step of p that leaves a well-typed state in run[p].
LEMMA RunTyped ==
  ASSUME IndType, NEW p \in Runs, NEW r \in RunType,
         Placed(r), run' = [run EXCEPT ![p] = r]
  PROVE  run' \in [Runs -> RunType] /\ AllPlaced'
  BY DEF IndType, TypeOK, RunType, AllPlaced, Placed

\* Going on to the next connector, with new candidates.
LEMMA AdvancedType ==
  ASSUME NEW r \in RunType, NEW cs \in Seq(Items)
  PROVE  /\ [r EXCEPT !.phase = "handle", !.at = @ + 1, !.loaded = NoRow,
                       !.candidates = @ \o cs] \in RunType
         /\ [r EXCEPT !.phase = "handle", !.at = @ + 1, !.loaded = NoRow,
                       !.candidates = @ \o cs].phase = "handle"
<1>1. r.at + 1 \in Nat \ {0}
  BY DEF RunType
<1>2. NoRow \in Rows
  BY OrderFacts DEF NoRow, Rows
<1>3. r.candidates \o cs \in Seq(Items)
  BY DEF RunType
<1>4. ASSUME NEW n \in Nat \ {0}, NEW l \in Rows, NEW c \in Seq(Items)
      PROVE  /\ [r EXCEPT !.phase = "handle", !.at = n, !.loaded = l,
                           !.candidates = c] \in RunType
             /\ [r EXCEPT !.phase = "handle", !.at = n, !.loaded = l,
                           !.candidates = c].phase = "handle"
  BY DEF RunType, Phases
<1>5. QED BY <1>1, <1>2, <1>3, <1>4

\* Storing a row for the current connector, and going on to the next.
LEMMA StoreRowTyped ==
  ASSUME IndType, NEW p \in Runs, run[p].at \in DOMAIN Order,
         NEW s \in {"remote", "cached", "default"}, NEW v \in Versions,
         StoreRow(p, Current(p), s, v)
  PROVE  IndType'
<1>1. Current(p) \in Connectors
  BY OrderFacts DEF Current
<1>2. table' \in [Connectors -> Rows]
  BY DEF StoreRow, IndType, TypeOK, Rows
<1>3. <<<<Current(p), v>>>> \in Seq(Items)
  <2>1. <<Current(p), v>> \in Items
    BY <1>1 DEF Items
  <2>2. QED BY <2>1
<1> DEFINE r == [run[p] EXCEPT !.phase = "handle", !.at = @ + 1,
                   !.loaded = NoRow,
                   !.candidates = @ \o <<<<Current(p), v>>>>]
<1>4. run[p] \in RunType
  BY DEF IndType, TypeOK, RunType
<1>5. r \in RunType /\ r.phase = "handle"
  BY <1>3, <1>4, AdvancedType
<1>6. run' = [run EXCEPT ![p] = r]
  BY <1>4 DEF StoreRow, Advanced, RunType, IndType, TypeOK
<1>7. Placed(r)
  BY <1>5 DEF Placed
<1>8. run' \in [Runs -> RunType] /\ AllPlaced'
  BY <1>5, <1>6, <1>7, RunTyped
<1>9. QED
  BY <1>2, <1>8 DEF StoreRow, Unlocked, Alone, IndType, TypeOK, RunType

LEMMA InsertedType ==
  ASSUME TypeOK, NEW p \in Runs, NEW items \in SUBSET Items, Inserted(p, items)
  PROVE  /\ opps' \subseteq Items /\ pending' \in [Runs -> SUBSET Items]
         /\ lock' \in Runs \cup {"free"}
<1>1. CASE p \in FromQueue
  BY <1>1 DEF Inserted, TypeOK
<1>2. CASE p \notin FromQueue
  BY <1>2 DEF Inserted, TypeOK
<1>3. QED BY <1>1, <1>2

\* A candidate's rows are rows of its kind.
LEMMA NewRowsType ==
  ASSUME IndType, NEW p \in Runs, run[p].phase = "insert"
  PROVE  /\ Candidate(p) \in Items
         /\ Matched(p) \in SUBSET Items /\ NewRows(p) \in SUBSET Items
<1>1. run[p].candidates \in Seq(Items) /\ run[p].at \in DOMAIN run[p].candidates
  BY DEF IndType, TypeOK, AllPlaced, Placed
<1>2. Candidate(p) \in Items
  BY <1>1 DEF Candidate
<1>3. QED BY <1>2 DEF Matched, NewRows

LEMMA LookType ==
  ASSUME IndType, NEW p \in Runs, Look(p) PROVE IndType'
<1> DEFINE e == ~IsNew(p, Candidate(p))
           r == [run[p] EXCEPT !.phase = "insert", !.existing = e]
<1>1. /\ run \in [Runs -> RunType] /\ run[p] \in RunType
      /\ e \in BOOLEAN /\ "insert" \in Phases
  BY DEF IndType, TypeOK, RunType, IsNew, Phases
<1>2. run' = [run EXCEPT ![p] = r]
  BY <1>1 DEF Look, Looked
<1>3. run[p].at \in DOMAIN run[p].candidates
  BY <1>1 DEF Look, Looked, RunType
<1> HIDE DEF e
<1>4. /\ r \in RunType /\ r.phase = "insert" /\ r.at = run[p].at
      /\ r.candidates = run[p].candidates
  BY <1>1 DEF RunType
<1>5. run' \in [Runs -> RunType] /\ AllPlaced'
  BY <1>2, <1>3, <1>4, RunTyped DEF Placed
<1>6. QED BY <1>5 DEF Look, Looked, Alone, IndType, TypeOK, RunType

LEMMA InsertType ==
  ASSUME IndType, NEW p \in Runs, Insert(p) PROVE IndType'
<1> DEFINE r == [run[p] EXCEPT !.phase = "persist", !.at = @ + 1,
                   !.found = @ \cup Matched(p), !.existing = FALSE,
                   !.released = FALSE]
<1>1. /\ run \in [Runs -> RunType] /\ run[p] \in RunType
      /\ run[p].phase = "insert"
  BY DEF IndType, TypeOK, RunType, Insert
<1>2. Matched(p) \in SUBSET Items /\ NewRows(p) \in SUBSET Items
  BY <1>1, NewRowsType
<1>3. /\ opps' \subseteq Items /\ pending' \in [Runs -> SUBSET Items]
      /\ lock' \in Runs \cup {"free"}
  BY <1>2, InsertedType DEF IndType, Insert
<1>4. run' = [run EXCEPT ![p] = r]
  BY <1>1 DEF Insert
<1>5. /\ run[p].at + 1 \in Nat \ {0} /\ run[p].found \cup Matched(p) \in SUBSET Items
      /\ "persist" \in Phases
  BY <1>1, <1>2 DEF RunType, Phases
<1>6. r \in RunType /\ r.phase = "persist"
  <2>1. ASSUME NEW n \in Nat \ {0}, NEW f \in SUBSET Items
        PROVE  /\ [run[p] EXCEPT !.phase = "persist", !.at = n, !.found = f,
                      !.existing = FALSE, !.released = FALSE] \in RunType
               /\ [run[p] EXCEPT !.phase = "persist", !.at = n, !.found = f,
                      !.existing = FALSE, !.released = FALSE].phase = "persist"
    BY <1>1, <1>5 DEF RunType
  <2>2. QED BY <1>5, <2>1
<1>7. run' \in [Runs -> RunType] /\ AllPlaced'
  BY <1>4, <1>6, RunTyped DEF Placed
<1>8. QED BY <1>3, <1>7 DEF Insert, Alone, IndType, TypeOK, RunType

LEMMA CollideType ==
  ASSUME IndType, NEW p \in Runs, Collide(p) PROVE IndType'
<1> DEFINE r == [run[p] EXCEPT !.phase = "collided"]
<1>1. run \in [Runs -> RunType] /\ run[p] \in RunType
  BY DEF IndType, TypeOK, RunType
<1>2. r \in RunType /\ r.phase = "collided"
  BY <1>1 DEF RunType, Phases, Ended
<1>3. run' \in [Runs -> RunType] /\ AllPlaced'
  BY <1>1, <1>2, RunTyped DEF Placed, Collide
<1>4. QED BY <1>3 DEF Collide, Alone, IndType, TypeOK, RunType

LEMMA SignalType ==
  ASSUME IndType, NEW p \in Runs, Signal(p) PROVE IndType'
<1> DEFINE r == [run[p] EXCEPT !.released = TRUE]
<1>1. run \in [Runs -> RunType] /\ run[p] \in RunType /\ Placed(run[p])
  BY DEF IndType, TypeOK, RunType, AllPlaced
<1>2. /\ r \in RunType /\ r.phase = run[p].phase /\ r.at = run[p].at
      /\ r.candidates = run[p].candidates
  BY <1>1 DEF RunType
<1>3. run' \in [Runs -> RunType] /\ AllPlaced'
  BY <1>1, <1>2, RunTyped DEF Placed, Signal
<1>4. opps' \subseteq Items /\ pending' \in [Runs -> SUBSET Items]
  BY DEF Signal, IndType, TypeOK
<1>5. QED BY <1>3, <1>4 DEF Signal, IndType, TypeOK, RunType

LEMMA TypeStep == IndType /\ [Next]_vars => IndType'
<1> SUFFICES ASSUME IndType, [Next]_vars PROVE IndType'
  OBVIOUS
<1>t. run \in [Runs -> RunType]
  BY DEF IndType, TypeOK, RunType
<1>1. ASSUME NEW p \in Runs, NEW m \in Modes, Start(p, m) PROVE IndType'
  <2>1. [Idle(m) EXCEPT !.phase = "fetch"] \in RunType
    BY IdleType DEF RunType, Phases
  <2>2. run' \in [Runs -> RunType] /\ AllPlaced'
    BY <1>1, <2>1, RunTyped DEF Start, Idle, Placed
  <2>3. QED BY <1>1, <2>2 DEF Start, IndType, TypeOK, RunType
<1>2. ASSUME NEW p \in Runs, Fetch(p) PROVE IndType'
  <2>0. PICK i \in Unique :
          \E result \in {[kind |-> "remote", version |-> upstream[Order[i]]],
                         [kind |-> "failed", version |-> 0]} :
            Fetched(p, Order[i], result)
    BY <1>2 DEF Fetch
  <2>1. PICK result \in {[kind |-> "remote", version |-> upstream[Order[i]]],
                         [kind |-> "failed", version |-> 0]} :
          Fetched(p, Order[i], result)
    BY <2>0
  <2>2. Order[i] \in Connectors
    BY OrderFacts DEF Unique, Positions
  <2>3. result \in Results
    BY <2>2, OrderFacts DEF Results, IndType, TypeOK, Versions
  <2> DEFINE r == [run[p] EXCEPT !.result[Order[i]] = result]
  <2>4. r \in RunType
    BY <1>t, <2>3 DEF RunType
  <2>5. run' = [run EXCEPT ![p] = r]
    BY <2>1, <1>t DEF Fetched
  <2>6. Placed(r)
    BY <2>1, <1>t DEF Fetched, RunType, Placed
  <2>7. run' \in [Runs -> RunType] /\ AllPlaced'
    BY <2>4, <2>5, <2>6, RunTyped
  <2>8. QED BY <2>1, <2>7 DEF Fetched, Alone, IndType, TypeOK, RunType
<1>3. ASSUME NEW p \in Runs, FetchOver(p) PROVE IndType'
  BY <1>3, <1>t DEF FetchOver, Alone, IndType, TypeOK, RunType, Phases, AllPlaced, Placed
<1>4. ASSUME NEW p \in Runs, StoreRemote(p) PROVE IndType'
  <2>1. run[p].at \in DOMAIN Order
    BY <1>4, <1>t, OrderFacts DEF StoreRemote, Handles, RunType
  <2>2. run[p].result[Current(p)].version \in Versions
    BY <1>t, <2>1, OrderFacts DEF Current, RunType, Results
  <2>3. QED BY <1>4, <2>1, <2>2, StoreRowTyped DEF StoreRemote
<1>5. ASSUME NEW p \in Runs, FallBackAtOnce(p) PROVE IndType'
  <2> DEFINE r == [run[p] EXCEPT !.phase =
                     IF run[p].mode = "disabled" THEN "raised" ELSE "fallback"]
  <2>1. run[p].at \in DOMAIN Order
    BY <1>5, <1>t, OrderFacts DEF FallBackAtOnce, Handles, RunType
  <2>2. r \in RunType /\ Placed(r)
    BY <1>t, <2>1 DEF RunType, Phases, Ended, Placed
  <2>3. run' = [run EXCEPT ![p] = r]
    BY <1>5, <1>t DEF FallBackAtOnce
  <2>4. run' \in [Runs -> RunType] /\ AllPlaced'
    BY <2>1, <2>2, <2>3, RunTyped
  <2>5. QED BY <1>5, <2>4 DEF FallBackAtOnce, Alone, IndType, TypeOK, RunType
<1>6. ASSUME NEW p \in Runs, LoadCached(p) PROVE IndType'
  <2>1. run[p].at \in DOMAIN Order
    BY <1>6, <1>t, OrderFacts DEF LoadCached, Handles, RunType
  <2>2. table[Current(p)] \in Rows
    BY <2>1, OrderFacts DEF Current, IndType, TypeOK
  <2>3. PICK r \in RunType :
          /\ run' = [run EXCEPT ![p] = r]
          /\ Placed(r)
    <3>1. CASE table[Current(p)].status = "none" /\ run[p].mode = "cache-only"
      <4> DEFINE r == [run[p] EXCEPT !.phase = "handle", !.at = @ + 1,
                         !.loaded = NoRow, !.candidates = @ \o <<>>]
      <4>1. run[p] \in RunType /\ <<>> \in Seq(Items)
        BY <1>t
      <4>3. r \in RunType /\ r.phase = "handle"
        BY <4>1, AdvancedType
      <4>4. run' = [run EXCEPT ![p] = r]
        BY <1>6, <1>t, <3>1 DEF LoadCached, Advanced, RunType
      <4>5. QED BY <4>3, <4>4 DEF Placed
    <3>2. CASE ~(table[Current(p)].status = "none" /\ run[p].mode = "cache-only")
      <4> DEFINE r == [run[p] EXCEPT !.loaded = table[Current(p)],
                         !.phase = IF table[Current(p)].legacy
                                     THEN "upgrade" ELSE "fallback"]
      <4>1. r \in RunType /\ Placed(r)
        BY <1>t, <2>1, <2>2 DEF RunType, Phases, Placed
      <4>2. run' = [run EXCEPT ![p] = r]
        BY <1>6, <1>t, <3>2 DEF LoadCached, RunType
      <4>3. QED BY <4>1, <4>2
    <3>3. QED BY <3>1, <3>2
  <2>4. run' \in [Runs -> RunType] /\ AllPlaced'
    BY <2>3, RunTyped
  <2>5. QED BY <1>6, <2>4 DEF LoadCached, Alone, IndType, TypeOK, RunType
<1>7. ASSUME NEW p \in Runs, UpgradeRow(p) PROVE IndType'
  <2>1. [run[p].loaded EXCEPT !.legacy = FALSE] \in Rows
    BY <1>t DEF RunType, Rows
  <2>2. table' \in [Connectors -> Rows]
    BY <1>7, <2>1 DEF UpgradeRow, IndType, TypeOK
  <2>3. run' \in [Runs -> RunType] /\ AllPlaced'
    BY <1>7, <1>t DEF UpgradeRow, RunType, Phases, IndType, AllPlaced, Placed
  <2>4. QED BY <1>7, <2>2, <2>3 DEF UpgradeRow, Unlocked, Alone, IndType, TypeOK, RunType
<1>8. ASSUME NEW p \in Runs, StoreFallback(p) PROVE IndType'
  <2>1. run[p].at \in DOMAIN Order
    BY <1>8 DEF StoreFallback, IndType, AllPlaced, Placed
  <2>2. run[p].loaded.version \in Versions
    BY <1>t DEF RunType, Rows
  <2>3. QED BY <1>8, <2>1, <2>2, StoreRowTyped DEF StoreFallback
<1>9. ASSUME NEW p \in Runs, HandlingOver(p) PROVE IndType'
  <2> DEFINE r == [run[p] EXCEPT !.phase = "persist", !.at = 1]
  <2>1. r \in RunType /\ r.phase = "persist"
    <3>1. 1 \in Nat \ {0} /\ "persist" \in Phases
      BY DEF Phases
    <3>2. ASSUME NEW n \in Nat \ {0}, NEW f \in Phases
          PROVE  /\ [run[p] EXCEPT !.phase = f, !.at = n] \in RunType
                 /\ [run[p] EXCEPT !.phase = f, !.at = n].phase = f
      BY <1>t DEF RunType
    <3>3. QED BY <3>1, <3>2
  <2>2. run' = [run EXCEPT ![p] = r]
    BY <1>9, <1>t DEF HandlingOver
  <2>3. run' \in [Runs -> RunType] /\ AllPlaced'
    BY <2>1, <2>2, RunTyped DEF Placed
  <2>4. QED BY <1>9, <2>3 DEF HandlingOver, Alone, IndType, TypeOK, RunType
<1>10. ASSUME NEW p \in Runs, Look(p) \/ Insert(p) \/ Collide(p) \/ Signal(p)
       PROVE  IndType'
  BY <1>10, LookType, InsertType, CollideType, SignalType
<1>11. ASSUME NEW p \in Runs, Commit(p) PROVE IndType'
  <2>1. /\ opps' \subseteq Items /\ pending' \in [Runs -> SUBSET Items]
        /\ lock' \in Runs \cup {"free"}
    BY <1>11 DEF Commit, IndType, TypeOK
  <2>2. run' \in [Runs -> RunType] /\ AllPlaced'
    BY <1>11, <1>t DEF Commit, RunType, Phases, Ended, IndType, AllPlaced, Placed
  <2>3. QED BY <1>11, <2>1, <2>2 DEF Commit, Alone, IndType, TypeOK, RunType
<1>12. ASSUME NEW p \in Runs, Crash(p) PROVE IndType'
  <2>1. run[p].mode \in Modes
    BY <1>t DEF RunType
  <2>2. run' \in [Runs -> RunType] /\ AllPlaced'
    BY <1>12, <2>1, IdleType, RunTyped DEF Crash, Idle, Placed
  <2>3. QED BY <1>12, <2>2 DEF Crash, IndType, TypeOK, RunType
<1>13. ASSUME NEW c \in Connectors, Publish(c) PROVE IndType'
  BY <1>13, DiscoveryAssumption DEF Publish, IndType, TypeOK, AllPlaced, Placed
<1>14. CASE UNCHANGED vars
  BY <1>14 DEF vars, IndType, TypeOK, AllPlaced, Placed
<1>15. QED
  BY <1>1, <1>2, <1>3, <1>4, <1>5, <1>6, <1>7, <1>8, <1>9, <1>10, <1>11, <1>12,
     <1>13, <1>14 DEF Next, Step

LEMMA AlwaysIndType == Spec => []IndType
  BY InitType, TypeStep, PTL DEF Spec

\* Every variable keeps its type, whatever the connectors, the batch size,
\* the modes and the number of runs.
THEOREM TypeCorrect == Spec => []TypeOK
  BY AlwaysIndType, PTL DEF IndType

-----------------------------------------------------------------------------
(* The write lock, and what a run found                                      *)

\* A row of an open transaction is in no other and not in the table.
Exclusive ==
  \A p \in Runs : pending[p] \cap opps = {} /\ (pending[p] # {} => lock = p)

\* Between its SELECT and its INSERT a run knows that a signature it found is
\* still there; that one it did not find is still missing, it knows only as
\* long as it has the lock, which a signal of the queue releases.
InHand(q) ==
  /\ run[q].phase = "insert" =>
       /\ run[q].existing => ~IsNew(q, Candidate(q))
       /\ ~run[q].released /\ ~run[q].existing =>
            lock = q /\ IsNew(q, Candidate(q))
  /\ run[q].released => q \in FromQueue
  /\ run[q].phase = "collided" => run[q].released
  /\ q \in FromQueue => pending[q] = {}

\* The candidates a run has gone through.
Found(q) ==
  /\ run[q].phase \in {"persist", "insert"} =>
       \A i \in DOMAIN run[q].candidates :
         i < run[q].at /\ Accepts(run[q].candidates[i]) =>
           run[q].candidates[i] \in opps \cup pending[q]
  /\ run[q].phase \in {"done", "collided"} =>
       \A i \in DOMAIN run[q].candidates :
         Accepts(run[q].candidates[i])
             /\ (run[q].phase = "done" \/ i <= run[q].at) =>
           run[q].candidates[i] \in opps

StoreInv ==
  /\ Exclusive
  /\ \A q \in Runs : InHand(q)
  /\ \A q \in Runs \ Dry : Found(q)

LEMMA StoreInvIs ==
  StoreInv => CollisionsNeedASignal /\ CandidatesPersisted
<1> SUFFICES ASSUME StoreInv PROVE CollisionsNeedASignal /\ CandidatesPersisted
  OBVIOUS
<1>1. ASSUME NEW p \in Runs, run[p].phase = "insert", ~run[p].released,
             NEW item \in NewRows(p)
      PROVE  IsNew(p, item)
  <2>1. item = Candidate(p) /\ ~run[p].existing
    BY <1>1 DEF NewRows, Matched
  <2>2. QED BY <1>1, <2>1 DEF StoreInv, InHand
<1>2. CollisionsNeedASignal
  BY <1>1 DEF StoreInv, Exclusive, InHand, CollisionsNeedASignal
<1>3. CandidatesPersisted
  BY DEF StoreInv, Found, CandidatesPersisted
<1>4. QED BY <1>2, <1>3

\* A run that does nothing keeps what it knows: no step takes an opportunity
\* out of the table or out of another run's transaction, and while a run has
\* the lock no other writes.
LEMMA OthersKeep ==
  ASSUME StoreInv, NEW q \in Runs, run'[q] = run[q], pending'[q] = pending[q],
         opps \subseteq opps', lock = q => UNCHANGED <<opps, lock>>
  PROVE  InHand(q)' /\ (q \notin Dry => Found(q)')
<1>1. InHand(q) /\ (q \notin Dry => Found(q))
  BY DEF StoreInv
<1>2. InHand(q)'
  BY <1>1 DEF InHand, IsNew, Candidate
<1>3. q \notin Dry => Found(q)'
  BY <1>1 DEF Found
<1>4. QED BY <1>2, <1>3

\* So a step of p need only account for p.
LEMMA OwnStep ==
  ASSUME StoreInv, NEW p \in Runs, lock \in {"free", p} \/ UNCHANGED <<opps, lock>>,
         opps \subseteq opps',
         \A q \in Runs \ {p} : run'[q] = run[q] /\ pending'[q] = pending[q],
         Exclusive', InHand(p)', p \notin Dry => Found(p)'
  PROVE  StoreInv'
<1>1. ASSUME NEW q \in Runs PROVE InHand(q)' /\ (q \notin Dry => Found(q)')
  <2>1. CASE q = p
    BY <2>1
  <2>2. CASE q # p
    <3>1. lock = q => UNCHANGED <<opps, lock>>
      BY <2>2, DiscoveryAssumption
    <3>2. QED BY <2>2, <3>1, OthersKeep
  <2>3. QED BY <2>1, <2>2
<1>2. QED BY <1>1 DEF StoreInv

\* A step of p that touches neither the table nor a transaction, and is not
\* about its candidates.
LEMMA ElsewhereKeeps ==
  ASSUME IndType, StoreInv, NEW p \in Runs,
         UNCHANGED <<opps, pending, lock>>,
         \A q \in Runs \ {p} : run'[q] = run[q],
         run'[p].released => run[p].released,
         run'[p].phase \notin {"persist", "insert", "done", "collided"}
  PROVE  StoreInv'
<1>1. Exclusive'
  BY DEF StoreInv, Exclusive
<1>2. InHand(p)' /\ Found(p)'
  BY DEF StoreInv, InHand, Found
<1>3. QED BY <1>1, <1>2, OwnStep

LEMMA InitStore == Init => StoreInv
  BY DEF Init, StoreInv, Exclusive, InHand, Found, Idle

\* The lock is p's, or free: no other transaction has a row.
LEMMA OthersEmpty ==
  ASSUME StoreInv, NEW p \in Runs, lock \in {"free", p}
  PROVE  \A q \in Runs \ {p} : pending[q] = {}
  BY DiscoveryAssumption DEF StoreInv, Exclusive

LEMMA LookKeeps ==
  ASSUME IndType, StoreInv, NEW p \in Runs, Look(p)
  PROVE  StoreInv'
<1>1. /\ UNCHANGED <<opps, pending>> /\ lock \in {"free", p} /\ lock' = p
      /\ run[p].phase = "persist" /\ run \in [Runs -> RunType]
  BY DEF Look, Looked, IndType, TypeOK, RunType
<1>2. /\ run'[p].phase = "insert" /\ run'[p].candidates = run[p].candidates
      /\ run'[p].at = run[p].at /\ run'[p].released = run[p].released
      /\ run'[p].existing = ~IsNew(p, Candidate(p))
      /\ \A q \in Runs \ {p} : run'[q] = run[q]
  BY <1>1 DEF Look, Looked, RunType
<1>3. Exclusive'
  BY <1>1, OthersEmpty DEF StoreInv, Exclusive
<1>4. InHand(p)'
  BY <1>1, <1>2 DEF StoreInv, InHand, IsNew, Candidate
<1>5. p \notin Dry => Found(p)'
  BY <1>1, <1>2 DEF StoreInv, Found
<1>6. QED BY <1>1, <1>2, <1>3, <1>4, <1>5, OwnStep

\* An INSERT changes p's transaction only, and leaves no row of it in the table.
LEMMA InsertedKeeps ==
  ASSUME IndType, StoreInv, NEW p \in Runs, lock \in {"free", p},
         NEW items \in SUBSET Items, items \cap (opps \cup pending[p]) = {},
         Inserted(p, items)
  PROVE  /\ Exclusive'
         /\ opps \subseteq opps'
         /\ opps' \cup pending'[p] = opps \cup pending[p] \cup items
         /\ \A q \in Runs \ {p} : pending'[q] = pending[q]
         /\ p \in FromQueue => pending'[p] = {}
<1>1. \A q \in Runs \ {p} : pending[q] = {}
  BY OthersEmpty
<1>2. pending \in [Runs -> SUBSET Items]
  BY DEF IndType, TypeOK
<1>3. CASE p \in FromQueue
  <2>1. /\ opps' = opps \cup pending[p] \cup items
        /\ pending' = [pending EXCEPT ![p] = {}]
    BY <1>3 DEF Inserted
  <2>2. \A q \in Runs : pending'[q] = {}
    BY <1>1, <1>2, <2>1
  <2>3. QED BY <1>1, <2>1, <2>2 DEF Exclusive
<1>4. CASE p \notin FromQueue
  <2>1. /\ opps' = opps /\ lock' = p
        /\ pending' = [pending EXCEPT ![p] = @ \cup items]
    BY <1>4 DEF Inserted
  <2>2. /\ pending'[p] = pending[p] \cup items
        /\ \A q \in Runs \ {p} : pending'[q] = {}
    BY <1>1, <1>2, <2>1
  <2>3. pending'[p] \cap opps' = {}
    BY <2>1, <2>2 DEF StoreInv, Exclusive
  <2>4. QED BY <1>1, <1>4, <2>1, <2>2, <2>3 DEF Exclusive
<1>5. QED BY <1>3, <1>4

LEMMA InsertKeeps ==
  ASSUME IndType, StoreInv, NEW p \in Runs, Insert(p)
  PROVE  StoreInv'
<1>1. /\ run[p].phase = "insert" /\ run[p].candidates \in Seq(Items)
      /\ run[p].at \in DOMAIN run[p].candidates /\ run[p].at \in Nat
      /\ run \in [Runs -> RunType] /\ lock \in {"free", p}
      /\ Inserted(p, NewRows(p))
  BY DEF IndType, TypeOK, RunType, AllPlaced, Placed, Insert
<1>2. /\ NewRows(p) \in SUBSET Items
      /\ NewRows(p) \cap (opps \cup pending[p]) = {}
  BY <1>1, NewRowsType DEF Insert, IsNew
<1>3. p \notin Dry /\ Accepts(Candidate(p)) =>
        Candidate(p) \in opps \cup pending[p] \cup NewRows(p)
  BY <1>1 DEF StoreInv, InHand, IsNew, NewRows, Matched
<1>4. /\ run'[p].phase = "persist" /\ run'[p].candidates = run[p].candidates
      /\ run'[p].at = run[p].at + 1 /\ ~run'[p].released
      /\ \A q \in Runs \ {p} : run'[q] = run[q]
  BY <1>1 DEF Insert, RunType
<1>5. /\ Exclusive' /\ opps \subseteq opps'
      /\ opps' \cup pending'[p] = opps \cup pending[p] \cup NewRows(p)
      /\ \A q \in Runs \ {p} : pending'[q] = pending[q]
      /\ p \in FromQueue => pending'[p] = {}
  BY <1>1, <1>2, InsertedKeeps
<1>6. InHand(p)'
  BY <1>4, <1>5 DEF InHand
<1>7. ASSUME p \notin Dry PROVE Found(p)'
  <2>1. ASSUME NEW i \in DOMAIN run[p].candidates, i < run[p].at + 1,
               Accepts(run[p].candidates[i])
        PROVE  run[p].candidates[i] \in opps' \cup pending'[p]
    <3>1. CASE i < run[p].at
      BY <1>1, <1>5, <1>7, <2>1, <3>1 DEF StoreInv, Found
    <3>2. CASE i = run[p].at
      BY <1>3, <1>5, <1>7, <2>1, <3>2 DEF Candidate
    <3>3. QED BY <1>1, <2>1, <3>1, <3>2
  <2>2. QED BY <1>4, <2>1 DEF Found
<1>8. QED BY <1>1, <1>4, <1>5, <1>6, <1>7, OwnStep

\* The INSERT fails on a row of the table: a signal has left p's transaction
\* empty, so nothing is rolled back.
LEMMA CollideKeeps ==
  ASSUME IndType, StoreInv, NEW p \in Runs, Collide(p)
  PROVE  StoreInv'
<1>1. /\ run[p].phase = "insert" /\ run[p].candidates \in Seq(Items)
      /\ run[p].at \in DOMAIN run[p].candidates
      /\ run \in [Runs -> RunType] /\ lock \in {"free", p} /\ opps' = opps
      /\ pending' = [pending EXCEPT ![p] = {}] /\ pending \in [Runs -> SUBSET Items]
  BY DEF IndType, TypeOK, RunType, AllPlaced, Placed, Collide
<1>2. ~IsNew(p, Candidate(p)) /\ ~run[p].existing
  BY DEF Collide, NewRows, Matched
<1>3. run[p].released /\ p \in FromQueue /\ pending[p] = {}
  BY <1>1, <1>2 DEF StoreInv, InHand
<1>4. Candidate(p) \in opps
  BY <1>2, <1>3 DEF IsNew
<1>5. /\ run'[p].phase = "collided" /\ run'[p].candidates = run[p].candidates
      /\ run'[p].at = run[p].at /\ run'[p].released = run[p].released
      /\ \A q \in Runs \ {p} : run'[q] = run[q]
      /\ \A q \in Runs : pending'[q] = pending[q]
  BY <1>1, <1>3 DEF Collide, RunType
<1>6. Exclusive'
  BY <1>1, <1>3, <1>5, OthersEmpty DEF Exclusive
<1>7. InHand(p)'
  BY <1>3, <1>5 DEF InHand
<1>8. ASSUME p \notin Dry PROVE Found(p)'
  <2>1. ASSUME NEW i \in DOMAIN run[p].candidates, i <= run[p].at,
               Accepts(run[p].candidates[i])
        PROVE  run[p].candidates[i] \in opps
    <3>1. CASE i < run[p].at
      BY <1>1, <1>3, <1>8, <2>1, <3>1 DEF StoreInv, Found
    <3>2. CASE i = run[p].at
      BY <1>4, <3>2 DEF Candidate
    <3>3. QED BY <1>1, <2>1, <3>1, <3>2
  <2>2. QED BY <1>1, <1>5, <2>1 DEF Found
<1>9. QED BY <1>1, <1>5, <1>6, <1>7, <1>8, OwnStep

LEMMA SignalKeeps ==
  ASSUME IndType, StoreInv, NEW p \in Runs, Signal(p)
  PROVE  StoreInv'
<1>1. /\ run \in [Runs -> RunType] /\ pending \in [Runs -> SUBSET Items]
      /\ p \in FromQueue /\ run[p].phase = "insert" /\ lock = p
  BY DEF Signal, IndType, TypeOK, RunType
<1>2. pending[p] = {}
  BY <1>1 DEF StoreInv, InHand
<1>3. /\ opps' = opps /\ \A q \in Runs : pending'[q] = pending[q]
      /\ run'[p] = [run[p] EXCEPT !.released = TRUE]
      /\ \A q \in Runs \ {p} : run'[q] = run[q]
  BY <1>1, <1>2 DEF Signal
<1>4. /\ run'[p].phase = "insert" /\ run'[p].candidates = run[p].candidates
      /\ run'[p].at = run[p].at /\ run'[p].released
      /\ run'[p].existing = run[p].existing
  BY <1>1, <1>3 DEF RunType
<1>5. Exclusive'
  BY <1>1, <1>2, <1>3, OthersEmpty DEF Exclusive
<1>6. InHand(p)'
  BY <1>1, <1>2, <1>3, <1>4 DEF StoreInv, InHand, IsNew, Candidate
<1>7. p \notin Dry => Found(p)'
  BY <1>1, <1>3, <1>4 DEF StoreInv, Found
<1>8. QED BY <1>1, <1>3, <1>5, <1>6, <1>7, OwnStep

LEMMA CommitKeeps ==
  ASSUME IndType, StoreInv, NEW p \in Runs, Commit(p)
  PROVE  StoreInv'
<1>1. /\ pending \in [Runs -> SUBSET Items] /\ run \in [Runs -> RunType]
      /\ run[p].phase = "persist" /\ run[p].at > Len(run[p].candidates)
      /\ run[p].candidates \in Seq(Items) /\ run[p].at \in Nat
      /\ lock \in {"free", p}
  BY DEF Commit, IndType, TypeOK, RunType
<1>2. \A q \in Runs \ {p} : pending[q] = {}
  BY <1>1, OthersEmpty
<1>3. opps' = opps \cup pending[p] /\ \A q \in Runs : pending'[q] = {}
  BY <1>1, <1>2 DEF Commit
<1>4. /\ run'[p].phase = "done" /\ run'[p].candidates = run[p].candidates
      /\ run'[p].released = run[p].released
      /\ \A q \in Runs \ {p} : run'[q] = run[q]
  BY <1>1 DEF Commit, RunType
<1>5. Exclusive'
  BY <1>3 DEF Exclusive
<1>6. InHand(p)'
  BY <1>3, <1>4 DEF StoreInv, InHand
<1>7. ASSUME p \notin Dry PROVE Found(p)'
  <2>1. \A i \in DOMAIN run[p].candidates : i < run[p].at
    BY <1>1
  <2>2. QED BY <1>1, <1>3, <1>4, <1>7, <2>1 DEF StoreInv, Found
<1>8. QED BY <1>1, <1>2, <1>3, <1>4, <1>5, <1>6, <1>7, OwnStep

LEMMA CrashKeeps ==
  ASSUME IndType, StoreInv, NEW p \in Runs, Crash(p)
  PROVE  StoreInv'
<1>1. /\ opps' = opps /\ pending' = [pending EXCEPT ![p] = {}]
      /\ pending \in [Runs -> SUBSET Items]
      /\ run' = [run EXCEPT ![p] = Idle(run[p].mode)]
      /\ run \in [Runs -> RunType]
      /\ lock' = IF lock = p THEN "free" ELSE lock
  BY DEF Crash, IndType, TypeOK, RunType
<1>2. /\ pending'[p] = {} /\ \A q \in Runs \ {p} : pending'[q] = pending[q]
      /\ run'[p].phase = "idle" /\ ~run'[p].released
      /\ \A q \in Runs \ {p} : run'[q] = run[q]
  BY <1>1 DEF Idle
<1>3. Exclusive'
  BY <1>1, <1>2 DEF StoreInv, Exclusive
<1>4. InHand(p)' /\ Found(p)'
  BY <1>2 DEF InHand, Found
<1>5. lock \in {"free", p} \/ UNCHANGED <<opps, lock>>
  BY <1>1
<1>6. QED BY <1>1, <1>2, <1>3, <1>4, <1>5, OwnStep

LEMMA StoreStep == IndType /\ StoreInv /\ [Next]_vars => StoreInv'
<1> SUFFICES ASSUME IndType, StoreInv, [Next]_vars PROVE StoreInv'
  OBVIOUS
<1>t. run \in [Runs -> RunType]
  BY DEF IndType, TypeOK, RunType
<1>1. ASSUME NEW p \in Runs, NEW m \in Modes, Start(p, m) PROVE StoreInv'
  BY <1>1, <1>t, ElsewhereKeeps DEF Start, Idle
<1>2. ASSUME NEW p \in Runs, Fetch(p) PROVE StoreInv'
  <2>1. /\ UNCHANGED <<opps, pending, lock>> /\ run[p].phase = "fetch"
        /\ run'[p].phase = run[p].phase /\ run'[p].released = run[p].released
        /\ \A q \in Runs \ {p} : run'[q] = run[q]
    BY <1>2, <1>t DEF Fetch, Fetched, RunType
  <2>2. QED BY <2>1, ElsewhereKeeps
<1>3. ASSUME NEW p \in Runs, FetchOver(p) PROVE StoreInv'
  BY <1>3, <1>t, ElsewhereKeeps DEF FetchOver, RunType
<1>4. ASSUME NEW p \in Runs, StoreRemote(p) PROVE StoreInv'
  BY <1>4, <1>t, ElsewhereKeeps
  DEF StoreRemote, StoreRow, Unlocked, Advanced, RunType
<1>5. ASSUME NEW p \in Runs, FallBackAtOnce(p) PROVE StoreInv'
  BY <1>5, <1>t, ElsewhereKeeps DEF FallBackAtOnce, RunType
<1>6. ASSUME NEW p \in Runs, LoadCached(p) PROVE StoreInv'
  BY <1>6, <1>t, ElsewhereKeeps DEF LoadCached, Advanced, RunType
<1>7. ASSUME NEW p \in Runs, UpgradeRow(p) PROVE StoreInv'
  BY <1>7, <1>t, ElsewhereKeeps DEF UpgradeRow, Unlocked, RunType
<1>8. ASSUME NEW p \in Runs, StoreFallback(p) PROVE StoreInv'
  BY <1>8, <1>t, ElsewhereKeeps
  DEF StoreFallback, StoreRow, Unlocked, Advanced, RunType
<1>9. ASSUME NEW p \in Runs, HandlingOver(p) PROVE StoreInv'
  <2>1. /\ UNCHANGED <<opps, pending, lock>>
        /\ run'[p].phase = "persist" /\ run'[p].at = 1
        /\ run'[p].candidates = run[p].candidates
        /\ run[p].candidates \in Seq(Items)
        /\ \A q \in Runs \ {p} : run'[q] = run[q]
    BY <1>9, <1>t DEF HandlingOver, RunType
  <2>2. run'[p].released = run[p].released
    BY <1>9, <1>t DEF HandlingOver, RunType
  <2>3. Exclusive'
    BY <2>1 DEF StoreInv, Exclusive
  <2>4. InHand(p)' /\ Found(p)'
    BY <2>1, <2>2 DEF StoreInv, InHand, Found
  <2>5. QED BY <2>1, <2>3, <2>4, OwnStep
<1>10. ASSUME NEW c \in Connectors, Publish(c) PROVE StoreInv'
  BY <1>10 DEF Publish, StoreInv, Exclusive, InHand, Found, IsNew, Candidate
<1>11. CASE UNCHANGED vars
  BY <1>11 DEF vars, StoreInv, Exclusive, InHand, Found, IsNew, Candidate
<1>12. QED
  BY <1>1, <1>2, <1>3, <1>4, <1>5, <1>6, <1>7, <1>8, <1>9, <1>10, <1>11,
     LookKeeps, InsertKeeps, CollideKeeps, SignalKeeps, CommitKeeps, CrashKeeps
     DEF Next, Step

LEMMA AlwaysStoreInv == Spec => []StoreInv
<1>1. Spec => []IndType BY AlwaysIndType
<1>2. QED BY <1>1, InitStore, StoreStep, PTL DEF Spec

\* However discoveries interleave, commit half way and are killed, the INSERT
\* of an opportunity meets a row of its signature only in a queued run that a
\* signal's commit reached after its SELECT.
THEOREM CollisionsFollowSignals == Spec => []CollisionsNeedASignal
  BY AlwaysStoreInv, StoreInvIs, PTL

\* However they do, a discovery that ended left every candidate it accepted
\* in the table, and one whose INSERT failed every candidate it had reached.
THEOREM FoundIsStored == Spec => []CandidatesPersisted
  BY AlwaysStoreInv, StoreInvIs, PTL

-----------------------------------------------------------------------------
(* What the connectors contribute                                            *)

\* In mode cache-first a run has a candidate for each position it is past.
Counted(r) ==
  r.mode = "cache-first" =>
    /\ r.phase = "fetch" => r.at = 1 /\ r.candidates = <<>>
    /\ r.phase \in {"handle", "upgrade", "fallback"} =>
         Len(r.candidates) + 1 = r.at /\ r.at <= Len(Order) + 1
    /\ r.phase \in {"persist", "insert", "done"} => Len(r.candidates) = Len(Order)

\* What a run has fetched, or loaded from a row marked remote, was published.
Published(r) ==
  /\ \A c \in Connectors :
       r.result[c].kind = "remote" => r.result[c].version \in 1..upstream[c]
  /\ r.phase \in {"fetch", "handle"} => r.loaded = NoRow
  /\ r.phase \in {"upgrade", "fallback"} /\ r.loaded.status = "remote" =>
       r.loaded.version \in 1..upstream[Order[r.at]]

ResultInv ==
  RemoteRowsAreLive /\ \A p \in Runs : Counted(run[p]) /\ Published(run[p])

\* A step that makes r of run p and leaves remote rows as they should be.
LEMMA ResultKept ==
  ASSUME IndType, ResultInv, NEW p \in Runs, NEW r, run' = [run EXCEPT ![p] = r],
         Counted(r), Published(r), upstream' = upstream, RemoteRowsAreLive'
  PROVE  ResultInv'
<1>1. /\ run'[p] = r /\ \A q \in Runs : q # p => run'[q] = run[q]
  BY DEF IndType, TypeOK
<1>2. ASSUME NEW q \in Runs PROVE Counted(run'[q]) /\ Published(run'[q])
  <2>1. CASE q = p
    BY <1>1, <2>1
  <2>2. CASE q # p
    BY <1>1, <2>2 DEF ResultInv
  <2>3. QED BY <2>1, <2>2
<1>3. ASSUME NEW q \in Runs PROVE Counted(run[q])' /\ Published(run[q])'
  BY <1>2 DEF Counted, Published
<1>4. QED BY <1>3 DEF ResultInv

LEMMA InitResult == Init => ResultInv
<1> SUFFICES ASSUME Init PROVE ResultInv
  OBVIOUS
<1>1. RemoteRowsAreLive
  BY DEF Init, RemoteRowsAreLive, NoRow
<1>2. \A p \in Runs : Counted(run[p]) /\ Published(run[p])
  BY DEF Init, Idle, Counted, Published, Awaited
<1>3. QED BY <1>1, <1>2 DEF ResultInv

LEMMA LongerByOne ==
  ASSUME NEW s \in Seq(Items), NEW x \in Items
  PROVE  Len(s) \in Nat /\ Len(s \o <<x>>) = Len(s) + 1
  OBVIOUS

LEMMA RowStored ==
  ASSUME IndType, ResultInv, NEW p \in Runs, run[p].at \in DOMAIN Order,
         run[p].phase \in {"handle", "fallback"},
         NEW s \in {"remote", "cached", "default"}, NEW v \in Versions,
         s = "remote" => v \in 1..upstream[Current(p)],
         StoreRow(p, Current(p), s, v)
  PROVE  ResultInv'
<1>1. run[p] \in RunType /\ Current(p) \in Connectors
  BY OrderFacts DEF IndType, TypeOK, RunType, Current
<1>2. RemoteRowsAreLive'
  BY <1>1 DEF StoreRow, Alone, ResultInv, RemoteRowsAreLive, IndType, TypeOK
<1> DEFINE cs == <<<<Current(p), v>>>>
           r == [run[p] EXCEPT !.phase = "handle", !.at = @ + 1, !.loaded = NoRow,
                               !.candidates = @ \o cs]
<1>3. <<Current(p), v>> \in Items
  BY <1>1 DEF Items
<1>4. run' = [run EXCEPT ![p] = r]
  BY <1>1 DEF StoreRow, Advanced, RunType, IndType, TypeOK
<1>5. /\ run[p].candidates \in Seq(Items) /\ run[p].at \in Nat \ {0}
      /\ r.phase = "handle" /\ r.at = run[p].at + 1 /\ r.mode = run[p].mode
      /\ r.result = run[p].result /\ r.candidates = run[p].candidates \o cs
      /\ r.loaded = NoRow
  BY <1>1 DEF RunType
<1>6. /\ Len(run[p].candidates) \in Nat
      /\ Len(r.candidates) = Len(run[p].candidates) + 1
  BY <1>3, <1>5, LongerByOne
<1> HIDE DEF cs, r
<1>7. Counted(r)
  <2>1. Counted(run[p]) /\ run[p].at <= Len(Order)
    BY OrderFacts DEF ResultInv
  <2>2. QED BY <1>5, <1>6, <2>1, OrderFacts DEF Counted
<1>8. Published(r)
  BY <1>5 DEF Published, ResultInv
<1>9. QED BY <1>2, <1>4, <1>7, <1>8, ResultKept DEF StoreRow, Alone

\* A step of p about a candidate leaves what the connectors gave alone.
LEMMA CandidateStep ==
  ASSUME IndType, ResultInv, NEW p \in Runs,
         Look(p) \/ Insert(p) \/ Collide(p) \/ Signal(p)
  PROVE  ResultInv'
<1>1. /\ run \in [Runs -> RunType] /\ run[p] \in RunType
      /\ Counted(run[p]) /\ Published(run[p])
      /\ run[p].phase \in {"persist", "insert"} /\ UNCHANGED <<table, upstream>>
  BY DEF IndType, TypeOK, RunType, ResultInv, Look, Looked, Insert, Collide, Signal,
         Alone
<1>2. run' = [run EXCEPT ![p] = run'[p]] /\ run'[p].mode = run[p].mode
      /\ run'[p].candidates = run[p].candidates /\ run'[p].result = run[p].result
      /\ run'[p].phase \in {"persist", "insert", "collided"}
  <2>1. CASE Look(p)
    BY <1>1, <2>1 DEF Look, Looked, RunType
  <2>2. CASE Insert(p)
    BY <1>1, <2>2 DEF Insert, RunType
  <2>3. CASE Collide(p)
    BY <1>1, <2>3 DEF Collide, RunType
  <2>4. CASE Signal(p)
    BY <1>1, <2>4 DEF Signal, RunType
  <2>5. QED BY <2>1, <2>2, <2>3, <2>4
<1>3. Counted(run'[p]) /\ Published(run'[p])
  BY <1>1, <1>2 DEF Counted, Published
<1>4. RemoteRowsAreLive'
  BY <1>1 DEF ResultInv, RemoteRowsAreLive
<1>5. QED BY <1>1, <1>2, <1>3, <1>4, ResultKept

LEMMA ResultStep == IndType /\ ResultInv /\ [Next]_vars => ResultInv'
<1> SUFFICES ASSUME IndType, ResultInv, [Next]_vars PROVE ResultInv'
  OBVIOUS
<1>t. /\ run \in [Runs -> RunType] /\ table \in [Connectors -> Rows]
      /\ upstream \in [Connectors -> 1..MaxVersion]
  BY DEF IndType, TypeOK, RunType
<1>i. RemoteRowsAreLive /\ \A p \in Runs : Counted(run[p]) /\ Published(run[p])
  BY DEF ResultInv
<1>r. UNCHANGED <<table, upstream>> => RemoteRowsAreLive'
  BY <1>i DEF RemoteRowsAreLive
<1>1. ASSUME NEW p \in Runs, NEW m \in Modes, Start(p, m) PROVE ResultInv'
  <2> DEFINE r == [Idle(m) EXCEPT !.phase = "fetch"]
  <2>1. /\ r.phase = "fetch" /\ r.at = 1 /\ r.candidates = <<>>
        /\ r.result = [c \in Connectors |-> Awaited] /\ r.loaded = NoRow
    BY DEF Idle
  <2>2. run' = [run EXCEPT ![p] = r]
    BY <1>1 DEF Start
  <2> HIDE DEF r
  <2>3. Counted(r) /\ Published(r)
    BY <2>1 DEF Counted, Published, Awaited
  <2>4. QED BY <1>1, <1>r, <2>2, <2>3, ResultKept DEF Start
<1>2. ASSUME NEW p \in Runs, Fetch(p) PROVE ResultInv'
  <2>0. PICK i \in Unique :
          \E result \in {[kind |-> "remote", version |-> upstream[Order[i]]],
                         [kind |-> "failed", version |-> 0]} :
            Fetched(p, Order[i], result)
    BY <1>2 DEF Fetch
  <2>1. PICK result \in {[kind |-> "remote", version |-> upstream[Order[i]]],
                         [kind |-> "failed", version |-> 0]} :
          Fetched(p, Order[i], result)
    BY <2>0
  <2>2. Order[i] \in Connectors
    BY OrderFacts DEF Unique, Positions
  <2>3. result.kind = "remote" => result.version \in 1..upstream[Order[i]]
    BY <1>t, <2>2, DiscoveryAssumption
  <2> DEFINE r == [run[p] EXCEPT !.result[Order[i]] = result]
  <2>4. run' = [run EXCEPT ![p] = r]
    BY <2>1, <1>t DEF Fetched
  <2>5. /\ r.phase = "fetch" /\ r.mode = run[p].mode /\ r.at = run[p].at
        /\ r.candidates = run[p].candidates /\ run[p].phase = "fetch"
        /\ r.loaded = run[p].loaded
        /\ r.result = [run[p].result EXCEPT ![Order[i]] = result]
        /\ run[p].result \in [Connectors -> Results]
    BY <2>1, <1>t DEF Fetched, RunType
  <2> HIDE DEF r
  <2>6. Counted(r)
    BY <1>i, <2>5 DEF Counted
  <2>7. Published(r)
    BY <1>i, <2>2, <2>3, <2>5 DEF Published
  <2>8. QED BY <2>1, <1>r, <2>4, <2>6, <2>7, ResultKept DEF Fetched, Alone
<1>3. ASSUME NEW p \in Runs, FetchOver(p) PROVE ResultInv'
  <2> DEFINE r == [run[p] EXCEPT !.phase = "handle"]
  <2>1. /\ run' = [run EXCEPT ![p] = r] /\ run[p].phase = "fetch"
        /\ UNCHANGED <<table, upstream>>
    BY <1>3, <1>t DEF FetchOver, Alone
  <2>2. /\ r.phase = "handle" /\ r.mode = run[p].mode /\ r.at = run[p].at
        /\ r.candidates = run[p].candidates /\ r.result = run[p].result
        /\ r.loaded = run[p].loaded
    BY <1>t DEF RunType
  <2> HIDE DEF r
  <2>3. Counted(r) /\ Published(r)
    BY <1>i, <2>1, <2>2, OrderFacts DEF Counted, Published
  <2>4. QED BY <1>r, <2>1, <2>3, ResultKept
<1>4. ASSUME NEW p \in Runs, StoreRemote(p) PROVE ResultInv'
  <2>1. run[p].at \in DOMAIN Order
    BY <1>4, <1>t, OrderFacts DEF StoreRemote, Handles, RunType
  <2>2. run[p].result[Current(p)].version \in Versions
    BY <1>t, <2>1, OrderFacts DEF Current, RunType, Results
  <2>3. run[p].result[Current(p)].version \in 1..upstream[Current(p)]
    BY <1>4, <1>i, <2>1, OrderFacts DEF StoreRemote, Handles, Published, Current
  <2>4. run[p].phase = "handle"
    BY <1>4 DEF StoreRemote, Handles
  <2>5. QED BY <1>4, <2>1, <2>2, <2>3, <2>4, RowStored DEF StoreRemote
<1>5. ASSUME NEW p \in Runs, FallBackAtOnce(p) PROVE ResultInv'
  <2> DEFINE r == [run[p] EXCEPT !.phase =
                     IF run[p].mode = "disabled" THEN "raised" ELSE "fallback"]
  <2>1. /\ run' = [run EXCEPT ![p] = r] /\ run[p].phase = "handle"
        /\ run[p].mode # "cache-first" /\ UNCHANGED <<table, upstream>>
    BY <1>5, <1>t DEF FallBackAtOnce, Handles, Alone
  <2>2. /\ r.mode = run[p].mode /\ r.result = run[p].result
        /\ r.loaded = run[p].loaded /\ r.phase \in {"raised", "fallback"}
    BY <1>t DEF RunType
  <2>3. run[p].loaded = NoRow /\ NoRow.status # "remote"
    BY <1>i, <2>1 DEF Published, NoRow
  <2> HIDE DEF r
  <2>4. Counted(r) /\ Published(r)
    BY <1>i, <2>1, <2>2, <2>3 DEF Counted, Published
  <2>5. QED BY <1>r, <2>1, <2>4, ResultKept
<1>6. ASSUME NEW p \in Runs, LoadCached(p) PROVE ResultInv'
  <2> DEFINE row == table[Current(p)]
  <2>1. /\ run[p].at \in DOMAIN Order /\ run[p].phase = "handle"
        /\ UNCHANGED <<table, upstream>>
    BY <1>6, <1>t, OrderFacts DEF LoadCached, Handles, RunType, Alone
  <2>2. /\ Current(p) \in Connectors /\ Current(p) = Order[run[p].at]
        /\ row \in Rows
        /\ row.status = "remote" => row.version \in 1..upstream[Current(p)]
    BY <1>t, <1>i, <2>1, OrderFacts DEF Current, RemoteRowsAreLive
  <2>3. CASE row.status = "none" /\ run[p].mode = "cache-only"
    <3> DEFINE r == [run[p] EXCEPT !.phase = "handle", !.at = @ + 1,
                       !.loaded = NoRow, !.candidates = @ \o <<>>]
    <3>1. run' = [run EXCEPT ![p] = r]
      BY <1>6, <1>t, <2>3 DEF LoadCached, Advanced, RunType
    <3>2. /\ r.phase = "handle" /\ r.mode = run[p].mode
          /\ r.result = run[p].result /\ r.loaded = NoRow
      BY <1>t DEF RunType
    <3> HIDE DEF r
    <3>3. Counted(r) /\ Published(r)
      BY <1>i, <2>3, <3>2 DEF Counted, Published
    <3>4. QED BY <1>r, <2>1, <3>1, <3>3, ResultKept
  <2>4. CASE ~(row.status = "none" /\ run[p].mode = "cache-only")
    <3> DEFINE r == [run[p] EXCEPT !.loaded = row,
                       !.phase = IF row.legacy THEN "upgrade" ELSE "fallback"]
    <3>1. run' = [run EXCEPT ![p] = r]
      BY <1>6, <1>t, <2>4 DEF LoadCached, RunType
    <3>2. /\ r.phase \in {"upgrade", "fallback"} /\ r.mode = run[p].mode
          /\ r.at = run[p].at /\ r.candidates = run[p].candidates
          /\ r.result = run[p].result /\ r.loaded = row
      BY <1>t DEF RunType
    <3> HIDE DEF r, row
    <3>3. Counted(r)
      BY <1>i, <2>1, <3>2 DEF Counted
    <3>4. Published(r)
      BY <1>i, <2>2, <3>2 DEF Published
    <3>5. QED BY <1>r, <2>1, <3>1, <3>3, <3>4, ResultKept
  <2>5. QED BY <2>3, <2>4
<1>7. ASSUME NEW p \in Runs, UpgradeRow(p) PROVE ResultInv'
  <2> DEFINE r == [run[p] EXCEPT !.phase = "fallback"]
             row == [run[p].loaded EXCEPT !.legacy = FALSE]
  <2>1. /\ run[p].phase = "upgrade" /\ run' = [run EXCEPT ![p] = r]
        /\ table' = [table EXCEPT ![Current(p)] = row] /\ upstream' = upstream
    BY <1>7, <1>t DEF UpgradeRow, Alone
  <2>2. /\ Current(p) \in Connectors /\ Current(p) = Order[run[p].at]
    BY <2>1, OrderFacts DEF IndType, AllPlaced, Placed, Current
  <2>3. row.status = run[p].loaded.status /\ row.version = run[p].loaded.version
    BY <1>t DEF RunType, Rows
  <2>4. row.status = "remote" => row.version \in 1..upstream[Current(p)]
    BY <1>i, <2>1, <2>2, <2>3 DEF Published
  <2>5. /\ r.phase = "fallback" /\ r.mode = run[p].mode /\ r.at = run[p].at
        /\ r.candidates = run[p].candidates /\ r.result = run[p].result
        /\ r.loaded = run[p].loaded
    BY <1>t DEF RunType
  <2> HIDE DEF r, row
  <2>6. RemoteRowsAreLive'
    BY <1>t, <1>i, <2>1, <2>2, <2>4 DEF RemoteRowsAreLive
  <2>7. Counted(r) /\ Published(r)
    BY <1>i, <2>1, <2>5 DEF Counted, Published
  <2>8. QED BY <2>1, <2>6, <2>7, ResultKept
<1>8. ASSUME NEW p \in Runs, StoreFallback(p) PROVE ResultInv'
  <2>1. run[p].at \in DOMAIN Order /\ run[p].phase = "fallback"
    BY <1>8 DEF StoreFallback, IndType, AllPlaced, Placed
  <2>2. run[p].loaded.version \in Versions
    BY <1>t DEF RunType, Rows
  <2>3. QED BY <1>8, <2>1, <2>2, RowStored DEF StoreFallback
<1>9. ASSUME NEW p \in Runs, HandlingOver(p) PROVE ResultInv'
  <2> DEFINE r == [run[p] EXCEPT !.phase = "persist", !.at = 1]
  <2>1. /\ run' = [run EXCEPT ![p] = r] /\ run[p].phase = "handle"
        /\ run[p].at > Len(Order) /\ UNCHANGED <<table, upstream>>
        /\ run[p].at \in Nat /\ run[p].candidates \in Seq(Items)
    BY <1>9, <1>t DEF HandlingOver, Alone, RunType
  <2>2. /\ r.phase = "persist" /\ r.mode = run[p].mode
        /\ r.candidates = run[p].candidates /\ r.result = run[p].result
    BY <1>t DEF RunType
  <2> HIDE DEF r
  <2>3. Counted(r)
    <3>1. Counted(run[p]) /\ Len(run[p].candidates) \in Nat
      BY <1>i, <2>1
    <3>2. Len(run[p].candidates) + 1 = run[p].at /\ run[p].at <= Len(Order) + 1
            => Len(run[p].candidates) = Len(Order)
      BY <2>1, <3>1, OrderFacts
    <3>3. QED BY <2>1, <2>2, <3>1, <3>2 DEF Counted
  <2>4. Published(r)
    BY <1>i, <2>2 DEF Published
  <2>5. QED BY <1>r, <2>1, <2>3, <2>4, ResultKept
<1>10. ASSUME NEW p \in Runs, Look(p) \/ Insert(p) \/ Collide(p) \/ Signal(p)
       PROVE  ResultInv'
  BY <1>10, CandidateStep
<1>11. ASSUME NEW p \in Runs, Commit(p) PROVE ResultInv'
  <2> DEFINE r == [run[p] EXCEPT !.phase = "done"]
  <2>1. /\ run[p].phase = "persist" /\ UNCHANGED <<table, upstream>>
        /\ run' = [run EXCEPT ![p] = r]
    BY <1>11, <1>t DEF Commit, Alone
  <2>2. /\ r.phase = "done" /\ r.mode = run[p].mode
        /\ r.candidates = run[p].candidates /\ r.result = run[p].result
    BY <1>t, <2>1 DEF RunType
  <2> HIDE DEF r
  <2>3. Counted(r) /\ Published(r)
    BY <1>i, <2>1, <2>2 DEF Counted, Published
  <2>4. QED BY <1>r, <2>1, <2>3, ResultKept
<1>12. ASSUME NEW p \in Runs, Crash(p) PROVE ResultInv'
  <2> DEFINE r == Idle(run[p].mode)
  <2>1. run' = [run EXCEPT ![p] = r] /\ UNCHANGED <<table, upstream>>
    BY <1>12 DEF Crash
  <2>2. r.phase = "idle" /\ r.result = [c \in Connectors |-> Awaited]
    BY DEF Idle
  <2> HIDE DEF r
  <2>3. Counted(r) /\ Published(r)
    BY <2>2 DEF Counted, Published, Awaited
  <2>4. QED BY <1>r, <2>1, <2>3, ResultKept
<1>13. ASSUME NEW c \in Connectors, Publish(c) PROVE ResultInv'
  <2>1. /\ UNCHANGED <<table, run>>
        /\ \A d \in Connectors : upstream[d] \in Nat /\ upstream'[d] \in Nat
        /\ \A d \in Connectors : upstream[d] <= upstream'[d]
    BY <1>13, <1>t, DiscoveryAssumption DEF Publish
  <2>2. \A d \in Connectors : 1..upstream[d] \subseteq 1..upstream'[d]
    BY <2>1
  <2>3. RemoteRowsAreLive'
    BY <1>i, <2>1, <2>2 DEF RemoteRowsAreLive
  <2>4. ASSUME NEW p \in Runs PROVE Counted(run[p])' /\ Published(run[p])'
    <3>1. run[p].phase \in {"upgrade", "fallback"} => Order[run[p].at] \in Connectors
      BY OrderFacts DEF IndType, AllPlaced, Placed
    <3>2. QED BY <1>i, <2>1, <2>2, <3>1 DEF Counted, Published
  <2>5. QED BY <2>3, <2>4 DEF ResultInv
<1>14. CASE UNCHANGED vars
  BY <1>14, <1>i DEF vars, ResultInv, RemoteRowsAreLive, Counted, Published
<1>15. QED
  BY <1>1, <1>2, <1>3, <1>4, <1>5, <1>6, <1>7, <1>8, <1>9, <1>10, <1>11, <1>12,
     <1>13, <1>14 DEF Next, Step

LEMMA AlwaysResultInv == Spec => []ResultInv
<1>1. Spec => []IndType BY AlwaysIndType
<1>2. QED BY <1>1, InitResult, ResultStep, PTL DEF Spec

\* In mode cache-first each connector contributes a result to a discovery that
\* has gone through them, however its own calls and those of others fail.
THEOREM NoneDropsOut == Spec => []NoConnectorDropsOut
<1>1. ResultInv => NoConnectorDropsOut
  BY DEF ResultInv, Counted, NoConnectorDropsOut
<1>2. QED BY <1>1, AlwaysResultInv, PTL

\* A row marked remote is what its connector's service published, though runs
\* write rows back that they read or fetched long before.
THEOREM RemoteIsLive == Spec => []RemoteRowsAreLive
<1>1. ResultInv => RemoteRowsAreLive
  BY DEF ResultInv
<1>2. QED BY <1>1, AlwaysResultInv, PTL
=============================================================================
