----------------------------- MODULE RecordCache -----------------------------
(***************************************************************************)
(* The cache of donor rows, donor lists and the organization profile:      *)
(* CacheManager over its Redis or memory backend, FundingBot's get_donor,  *)
(* list_donors and load_organization_profile, which fill it, and the       *)
(* writers of those tables, which invalidate it once they have committed.  *)
(*                                                                         *)
(* Callers share one backend: processes on Redis, or the threads of one    *)
(* process on its memory.  Each backend call is a step, since another      *)
(* caller may run between two of them, and each may raise.  A row is the   *)
(* number of the write that last changed it; a list holds every donor row  *)
(* (the filter on the segment is left out).  Hit and miss counts are not   *)
(* modelled.                                                               *)
(***************************************************************************)
EXTENDS Integers, Sequences, SequencesExt

CONSTANTS Callers,
          Addresses,   \* donors.email, as stored and as asked for
          KeyOf,       \* KeyOf[a]: the address in lower case, its cache key
          Lists,       \* the keys of list_donors, one per segment and "all"
          Profile,     \* the organization profile: its row and its key
          MaxOps,      \* bound: operations started
          MaxWrites,   \* bound: commits of the writers
          MaxFaults    \* bound: backend calls that raise, callers killed

ASSUME CacheAssumption ==
  /\ Lists \cap Addresses = {}
  /\ Profile \notin Addresses \cup Lists \cup {KeyOf[a] : a \in Addresses}

VARIABLES
  row,       \* row[s]: the stored row of s; 0 when there is none
  cached,    \* cached[e]: the entry under key e
  index,     \* index[i]: the keys listed in a scope index or a tag index
  op,        \* op[p]: what p is doing
  started, writes, faults

vars == <<row, cached, index, op, started, writes, faults>>

Keys == {KeyOf[a] : a \in Addresses}
Entries == Keys \cup Lists \cup {Profile}
Stored == Addresses \cup {Profile}

\* The tables' rows a read covers, the cache key it uses, and the indexes
\* that set adds the key to: first its scope, then its tags.
Covers(t) == IF t \in Lists THEN Addresses ELSE {t}
EntryOf(t) == IF t \in Addresses THEN KeyOf[t] ELSE t
Scope(e) == IF e = Profile THEN "deduped-profiles" ELSE "donor-records"
IndexesOf(e) ==
  IF e = Profile THEN <<Scope(e), Profile>> ELSE <<Scope(e), "donors", e>>
Indexes == {"donor-records", "deduped-profiles", "donors"} \cup Entries

\* An entry is a reading of rows.  Ghost: suspect, when it was outdated as it
\* was stored, or a caller was tidying the indexes while it was stored.
None == [holds |-> FALSE, value |-> <<>>, suspect |-> FALSE]

Steps == {"get", "select", "set", "index", "write", "delete", "unlist",
          "members", "drop", "unlistFound", "dropIndexes", "exists", "prune"}

NoOp == [step |-> "idle", kind |-> "fill", on |-> Profile, value |-> <<>>,
         todo |-> <<>>, found |-> {}, wrote |-> FALSE, missed |-> FALSE]

Init ==
  /\ row = [s \in Stored |-> 0]
  /\ cached = [e \in Entries |-> None]
  /\ index = [i \in Indexes |-> {}]
  /\ op = [p \in Callers |-> NoOp]
  /\ started = 0 /\ writes = 0 /\ faults = 0

-----------------------------------------------------------------------------
At(p, step) == op[p].step = step
Finish(p) == op' = [op EXCEPT ![p] = NoOp]
Goto(p, step) == op' = [op EXCEPT ![p].step = step]

\* Whether a caller deletes keys or takes them out of indexes.
Tidying(p) ==
  op[p].step \in {"delete", "unlist", "members", "drop", "unlistFound",
                  "dropIndexes", "exists", "prune"}

\* The entries that are stored and whose indexes are not all written yet.
BeingIndexed == {EntryOf(op[q].on) : q \in {c \in Callers : At(c, "index")}}

\* The cache, given that the entries of a set may no longer be relied on.
Doubted(suspects) ==
  [e \in Entries |->
     IF e \in suspects /\ cached[e].holds
       THEN [cached[e] EXCEPT !.suspect = TRUE] ELSE cached[e]]

Without(keys) == [e \in Entries |-> IF e \in keys THEN None ELSE cached[e]]

Begin(p, new) ==
  /\ At(p, "idle") /\ started < MaxOps
  /\ started' = started + 1
  /\ op' = [op EXCEPT ![p] = new]
  /\ UNCHANGED <<row, index, writes, faults>>

BeginFill(p) ==
  \E t \in Stored \cup Lists :
    Begin(p, [NoOp EXCEPT !.step = "get", !.on = t]) /\ UNCHANGED cached

BeginUpdate(p) ==
  \E s \in Stored :
    /\ Begin(p, [NoOp EXCEPT !.step = "write", !.kind = "update", !.on = s])
    /\ UNCHANGED cached

\* CacheRegion.clear, of one region
BeginClear(p) ==
  \E e \in Entries :
    /\ Begin(p, [NoOp EXCEPT !.step = "members", !.kind = "clear",
                   !.todo = <<Scope(e)>>])
    /\ cached' = Doubted(BeingIndexed)

\* stats of one region, for the metrics page
BeginStats(p) ==
  \E e \in Entries :
    /\ Begin(p, [NoOp EXCEPT !.step = "members", !.kind = "stats",
                   !.todo = <<Scope(e)>>])
    /\ cached' = Doubted(BeingIndexed)

-----------------------------------------------------------------------------
\* get_donor, list_donors, load_organization_profile

Get(p) ==
  /\ At(p, "get")
  /\ IF cached[EntryOf(op[p].on)].holds THEN Finish(p) ELSE Goto(p, "select")
  /\ UNCHANGED <<row, cached, index, started, writes, faults>>

Reading(t) == [s \in Covers(t) |-> row[s]]

Select(p) ==
  /\ At(p, "select")
  /\ op' = [op EXCEPT ![p].value = Reading(op[p].on), ![p].step = "set"]
  /\ UNCHANGED <<row, cached, index, started, writes, faults>>

Outdated(value) == \E s \in DOMAIN value : value[s] # row[s]

Set(p) ==
  LET e == EntryOf(op[p].on) IN
  /\ At(p, "set")
  /\ cached' = [cached EXCEPT ![e] =
       [holds |-> TRUE, value |-> op[p].value,
        suspect |-> Outdated(op[p].value) \/ \E q \in Callers : Tidying(q)]]
  /\ op' = [op EXCEPT ![p].step = "index", ![p].todo = IndexesOf(e)]
  /\ UNCHANGED <<row, index, started, writes, faults>>

\* One sadd; the operation returns after the last one.
Index(p) ==
  LET e == EntryOf(op[p].on) IN
  /\ At(p, "index")
  /\ index' = [index EXCEPT ![Head(op[p].todo)] = @ \cup {e}]
  /\ IF Len(op[p].todo) = 1 THEN Finish(p)
     ELSE op' = [op EXCEPT ![p].todo = Tail(@)]
  /\ UNCHANGED <<row, cached, started, writes, faults>>

-----------------------------------------------------------------------------
\* The writers: upsert_donor, set_donor_opt_out (which commits more than once),
\* send_outreach, gdpr_delete, store_setting.  invalidate, then for a donor
\* invalidate_tags.

Write(p) ==
  /\ At(p, "write") /\ (op[p].wrote => op[p].on # Profile)
  /\ writes < MaxWrites
  /\ writes' = writes + 1
  /\ row' = [row EXCEPT ![op[p].on] = writes']
  /\ op' = [op EXCEPT ![p].wrote = TRUE]
  /\ UNCHANGED <<cached, index, started, faults>>

\* The last commit has returned.
Committed(p) == op[p].wrote

Invalidate(p) ==
  /\ At(p, "write") /\ Committed(p)
  /\ Goto(p, "delete")
  /\ cached' = Doubted(BeingIndexed)
  /\ UNCHANGED <<row, index, started, writes, faults>>

\* Mutant: the tags are not swept.
SweepNothing(p, missed) == Finish(p)

\* What follows invalidate, whether or not it failed: a donor's tags are swept.
SweepTags(p, missed) ==
  IF op[p].on = Profile THEN Finish(p)
  ELSE op' = [op EXCEPT ![p].step = "members", ![p].missed = missed,
                        ![p].todo = <<"donors", KeyOf[op[p].on]>>]

Delete(p) ==
  /\ At(p, "delete")
  /\ cached' = Without({EntryOf(op[p].on)})
  /\ Goto(p, "unlist")
  /\ UNCHANGED <<row, index, started, writes, faults>>

Unlist(p) ==
  LET e == EntryOf(op[p].on) IN
  /\ At(p, "unlist")
  /\ index' = [index EXCEPT ![Scope(e)] = @ \ {e}]
  /\ SweepTags(p, FALSE)
  /\ UNCHANGED <<row, cached, started, writes, faults>>

-----------------------------------------------------------------------------
\* invalidate_tags, clear and stats: they read an index or two, ...

\* Mutant: the indexes are dropped and the entries they list are kept.
AfterMembersKeeping(kind, found) ==
  IF kind = "stats" THEN IF found = {} THEN "idle" ELSE "exists"
  ELSE "dropIndexes"

AfterMembers(kind, found) ==
  CASE kind = "stats" -> IF found = {} THEN "idle" ELSE "exists"
    [] OTHER -> IF found = {} THEN "dropIndexes" ELSE "drop"

Members(p) ==
  LET found == op[p].found \cup index[Head(op[p].todo)]
      next == AfterMembers(op[p].kind, found)
  IN  /\ At(p, "members")
      /\ IF Len(op[p].todo) > 1
           THEN op' = [op EXCEPT ![p].todo = Tail(@), ![p].found = found]
           ELSE CASE next = "idle" -> Finish(p)
                  [] next = "exists" ->
                       op' = [op EXCEPT ![p].step = next, ![p].found = {},
                                        ![p].todo = SetToSeq(found)]
                  [] OTHER ->
                       op' = [op EXCEPT ![p].step = next, ![p].found = found]
      /\ UNCHANGED <<row, cached, index, started, writes, faults>>

\* ... delete the keys it lists, ...
Drop(p) ==
  /\ At(p, "drop")
  /\ cached' = Without(op[p].found)
  /\ Goto(p, IF op[p].kind = "clear" THEN "dropIndexes" ELSE "unlistFound")
  /\ UNCHANGED <<row, index, started, writes, faults>>

UnlistFound(p) ==
  /\ At(p, "unlistFound")
  /\ index' = [index EXCEPT !["donor-records"] = @ \ op[p].found]
  /\ Goto(p, "dropIndexes")
  /\ UNCHANGED <<row, cached, started, writes, faults>>

\* ... and then the index itself, in one call.
Swept(p) == CASE op[p].kind = "clear" -> {op[p].todo[1]}
              [] OTHER -> {"donors", KeyOf[op[p].on]}

DropIndexes(p) ==
  /\ At(p, "dropIndexes")
  /\ index' = [i \in Indexes |-> IF i \in Swept(p) THEN {} ELSE index[i]]
  /\ Finish(p)
  /\ UNCHANGED <<row, cached, started, writes, faults>>

\* _prune_scope asks for each key and takes the missing ones out of the index.
Exists(p) ==
  LET e == Head(op[p].todo)
      stale == op[p].found \cup (IF cached[e].holds THEN {} ELSE {e})
  IN  /\ At(p, "exists")
      /\ IF Len(op[p].todo) > 1
           THEN op' = [op EXCEPT ![p].todo = Tail(@), ![p].found = stale]
           ELSE IF stale = {} THEN Finish(p)
           ELSE op' = [op EXCEPT ![p].step = "prune", ![p].found = stale]
      /\ UNCHANGED <<row, cached, index, started, writes, faults>>

Prune(p) ==
  LET scope == Scope(CHOOSE e \in op[p].found : TRUE) IN
  /\ At(p, "prune")
  /\ index' = [index EXCEPT ![scope] = @ \ op[p].found]
  /\ Finish(p)
  /\ UNCHANGED <<row, cached, started, writes, faults>>

-----------------------------------------------------------------------------
\* An entry's time to live is over; its key stays in the indexes.
Expire ==
  \E e \in Entries :
    /\ cached[e].holds
    /\ cached' = Without({e})
    /\ UNCHANGED <<row, index, op, started, writes, faults>>

\* The entries that an update which goes no further leaves out of date: a
\* sweep finds a donor's own key too, so the lists need it and the key needs
\* one of the two calls.
LeftBehind(p) ==
  IF op[p].kind # "update" \/ ~op[p].wrote THEN {}
  ELSE CASE op[p].step \in {"write", "delete"} ->
              {e \in Entries : Scope(e) = Scope(EntryOf(op[p].on))}
         [] op[p].step \in {"unlist", "members", "drop"} /\ op[p].on # Profile ->
              Lists \cup (IF op[p].missed THEN {KeyOf[op[p].on]} ELSE {})
         [] OTHER -> {}

\* A backend call raises: get counts as a miss, any other method is given up;
\* invalidate_tags is still called after an invalidate that failed.
Fault(p) ==
  /\ faults < MaxFaults
  /\ faults' = faults + 1
  /\ \/ At(p, "get") /\ Goto(p, "select") /\ UNCHANGED cached
     \/ /\ At(p, "delete") \/ At(p, "unlist")
        /\ SweepTags(p, At(p, "delete"))
        /\ cached' = IF op[p].on = Profile THEN Doubted(LeftBehind(p)) ELSE cached
     \/ At(p, "set") /\ Finish(p) /\ UNCHANGED cached
     \/ At(p, "index") /\ Finish(p) /\ cached' = Doubted({EntryOf(op[p].on)})
     \/ /\ Tidying(p) /\ ~At(p, "delete") /\ ~At(p, "unlist")
        /\ Finish(p) /\ cached' = Doubted(LeftBehind(p))
  /\ UNCHANGED <<row, index, started, writes>>

\* A process is killed and Redis keeps what it holds.
Crash(p) ==
  /\ ~At(p, "idle") /\ faults < MaxFaults
  /\ faults' = faults + 1
  /\ Finish(p)
  /\ cached' = Doubted(LeftBehind(p)
       \cup (IF At(p, "index") THEN {EntryOf(op[p].on)} ELSE {}))
  /\ UNCHANGED <<row, index, started, writes>>

\* The process with the memory backend restarts: the cache is lost with it.
Restart ==
  /\ faults < MaxFaults
  /\ faults' = faults + 1
  /\ cached' = [e \in Entries |-> None]
  /\ index' = [i \in Indexes |-> {}]
  /\ op' = [p \in Callers |-> NoOp]
  /\ UNCHANGED <<row, started, writes>>

Step(p) ==
  \/ Get(p) \/ Select(p) \/ Set(p) \/ Index(p)
  \/ Write(p) \/ Invalidate(p) \/ Delete(p) \/ Unlist(p)
  \/ Members(p) \/ Drop(p) \/ UnlistFound(p) \/ DropIndexes(p)
  \/ Exists(p) \/ Prune(p)

Next ==
  \/ \E p \in Callers :
       \/ BeginFill(p) \/ BeginUpdate(p) \/ BeginClear(p) \/ BeginStats(p)
       \/ Step(p) \/ Fault(p) \/ Crash(p)
  \/ Expire \/ Restart

Spec == Init /\ [][Next]_vars
-----------------------------------------------------------------------------
(* Properties *)

Updating(s) == \E p \in Callers : op[p].kind = "update" /\ op[p].on = s

\* Once the writers of a row have returned, no entry holds an older version of
\* it, in a list or under any spelling of the address, whatever ran meanwhile:
\* a fill that read after the commit, or stored before the invalidation, and a
\* failed delete of the key are all made good.  The exceptions are the suspects:
\* outdated when stored, stored while indexes were tidied, left by a crash.
CacheKeepsUp ==
  \A e \in Entries :
    cached[e].holds /\ ~cached[e].suspect =>
      \A s \in DOMAIN cached[e].value :
        cached[e].value[s] = row[s] \/ Updating(s)

\* Every entry that is not suspect can be found through its scope's index and
\* through each of its tags, so that a later clear or invalidation takes it
\* away: no order of fills, invalidations, clears and prunes loses it.
IndexesReachEntries ==
  \A e \in Entries :
    cached[e].holds /\ ~cached[e].suspect /\ e \notin BeingIndexed =>
      \A i \in Range(IndexesOf(e)) : e \in index[i]

=============================================================================
