----------------------------- MODULE CacheProofs -----------------------------
(***************************************************************************)
(* The properties of RecordCache for any callers, addresses, lists and     *)
(* bounds.                                                                 *)
(*                                                                         *)
(* Call an entry good when it is held and not suspect.  Only Set makes     *)
(* entries good, and only when nobody tidies and what it read is current;  *)
(* every other step leaves the good entries good or takes some away.  So   *)
(* what a caller that tidies has learnt of the good entries stays true     *)
(* until it is through (Learnt), and what is left to do is said of good    *)
(* entries alone: an index that misses one is still to be written          *)
(* (Reached), a row that has changed is still to be invalidated (Fresh).   *)
(***************************************************************************)
EXTENDS RecordCache, TLAPS

Good(e) == cached[e].holds /\ ~cached[e].suspect

Targets == Stored \cup Lists
TagsOf(e) == {IndexesOf(e)[i] : i \in DOMAIN IndexesOf(e)}
Items(s) == {s[i] : i \in DOMAIN s}

-----------------------------------------------------------------------------
(* The operations *)

IsOp(n) ==
  /\ DOMAIN n = {"step", "kind", "on", "value", "todo", "found", "wrote", "missed"}
  /\ n.kind \in {"fill", "update", "clear", "stats"}
  /\ n.wrote \in BOOLEAN /\ n.missed \in BOOLEAN
  /\ n.kind = "fill" =>
       n.step \in {"idle", "get", "select", "set", "index"} /\ n.on \in Targets
  /\ n.step = "set" => n.value = [s \in Covers(n.on) |-> n.value[s]]
  /\ n.step = "index" => n.todo \in Seq(Indexes) /\ n.todo # <<>>
  /\ n.kind = "update" =>
       /\ n.on \in Stored
       /\ n.step \in {"write", "delete", "unlist", "members", "drop",
                     "unlistFound", "dropIndexes"}
       /\ n.step # "write" => n.wrote = TRUE
       /\ n.step \in {"write", "delete", "unlist"} => n.missed = FALSE
       /\ n.step \in {"members", "drop", "unlistFound", "dropIndexes"} => n.on \in Addresses
       /\ n.step = "members" =>
            n.todo = <<"donors", KeyOf[n.on]>> \/ n.todo = <<KeyOf[n.on]>>
  /\ n.kind = "clear" =>
       n.step \in {"members", "drop", "dropIndexes"} /\ n.todo = <<n.todo[1]>>
  /\ n.kind = "stats" => n.step \in {"members", "exists", "prune"}

\* The indexes that a sweep or a clear is for, and those it has read.
SweptBy(n) == IF n.kind = "clear" THEN {n.todo[1]} ELSE {"donors", KeyOf[n.on]}
ReadBy(n) ==
  IF n.step = "members" THEN SweptBy(n) \ Items(n.todo) ELSE SweptBy(n)

\* What an operation has learnt of a set of entries.
Knows(n, entries) ==
  /\ n.step \in {"members", "drop"} /\ n.kind # "stats" =>
       \A e \in entries : TagsOf(e) \cap ReadBy(n) # {} => e \in n.found
  /\ n.step \in {"unlistFound", "dropIndexes"} =>
       \A e \in entries : TagsOf(e) \cap SweptBy(n) = {}
  /\ n.step \in {"unlistFound", "exists", "prune"} =>
       \A e \in entries : e \notin n.found
  /\ n.kind = "update" /\ n.step \in {"unlist", "members", "drop"} /\ ~n.missed =>
       EntryOf(n.on) \notin entries

\* LeftBehind, of an operation.
LeftBy(n) ==
  IF n.kind # "update" \/ ~n.wrote THEN {}
  ELSE IF n.step \in {"write", "delete"}
         THEN {e \in Entries : Scope(e) = Scope(EntryOf(n.on))}
  ELSE IF n.step \in {"unlist", "members", "drop"} /\ n.on # Profile
         THEN Lists \cup (IF n.missed THEN {KeyOf[n.on]} ELSE {})
  ELSE {}

Tidies(n) == n.step \in {"delete", "unlist", "members", "drop", "unlistFound",
                         "dropIndexes", "exists", "prune"}

-----------------------------------------------------------------------------
(* The invariant *)

CachedOK ==
  /\ cached = [e \in Entries |-> cached[e]]
  /\ \A e \in Entries :
       /\ DOMAIN cached[e] = {"holds", "value", "suspect"}
       /\ cached[e].holds =>
            \E t \in Targets : e = EntryOf(t) /\ DOMAIN cached[e].value = Covers(t)

Shape ==
  /\ row = [s \in Stored |-> row[s]]
  /\ index = [i \in Indexes |-> index[i]]
  /\ op = [p \in Callers |-> op[p]]
  /\ \A p \in Callers : IsOp(op[p])
  /\ CachedOK

\* A caller indexes e, or is still to write it into index i.
Indexing(q, e) == At(q, "index") /\ EntryOf(op[q].on) = e
ToIndex(q, e, i) == Indexing(q, e) /\ i \in Items(op[q].todo)

Reached ==
  \A e \in Entries : Good(e) =>
    \A i \in TagsOf(e) : e \in index[i] \/ \E q \in Callers : ToIndex(q, e, i)

NoneIndexed ==
  (\E p \in Callers : Tidies(op[p])) =>
    \A e \in Entries : Good(e) => \A q \in Callers : ~Indexing(q, e)

\* The operation n of an update of s is still to reach e.
Owes(n, e, s) == n.on = s /\ e \in LeftBy(n)

Fresh ==
  \A e \in Entries : Good(e) =>
    \A s \in DOMAIN cached[e].value :
      cached[e].value[s] = row[s] \/ \E p \in Callers : Owes(op[p], e, s)

Learnt == \A p \in Callers : Knows(op[p], {e \in Entries : Good(e)})

IInv == Shape /\ Reached /\ NoneIndexed /\ Fresh /\ Learnt

LEMMA Names ==
  /\ Profile \in Stored /\ Profile \notin Addresses /\ Profile \notin Lists
  /\ \A t \in Targets : EntryOf(t) \in Entries
  /\ \A e \in Entries : TagsOf(e) \subseteq Indexes
  /\ \A e \in Entries : Scope(e) \in TagsOf(e)
  /\ \A a \in Addresses : /\ EntryOf(a) = KeyOf[a] /\ KeyOf[a] \in Entries
                          /\ Scope(KeyOf[a]) = "donor-records"
  /\ \A l \in Lists : EntryOf(l) = l /\ l \in Entries /\ Scope(l) = "donor-records"
  /\ \A e \in Entries : Scope(e) = "donor-records" => "donors" \in TagsOf(e)
  /\ EntryOf(Profile) = Profile
  /\ Addresses \subseteq Targets /\ Lists \subseteq Targets /\ Profile \in Targets
<1>1. \A e \in Entries : IF e = Profile
                         THEN TagsOf(e) = {Scope(e), Profile}
                         ELSE TagsOf(e) = {Scope(e), "donors", e}
  BY DEF TagsOf, IndexesOf
<1>2. QED
  BY <1>1, CacheAssumption DEF Targets, Stored, Entries, Keys, EntryOf, Indexes, Scope

\* An update that leaves an entry behind, or gets through to it.
LEMMA Covering ==
  ASSUME Shape, NEW e \in Entries, cached[e].holds, NEW s \in DOMAIN cached[e].value
  PROVE  /\ s \in Stored /\ Scope(e) = Scope(EntryOf(s))
         /\ e = EntryOf(s) \/ (e \in Lists /\ s \in Addresses)
         /\ s \in Addresses => "donors" \in TagsOf(e)
<1>1. PICK t \in Targets : e = EntryOf(t) /\ DOMAIN cached[e].value = Covers(t)
  BY DEF Shape, CachedOK
<1>2. CASE t \in Lists
  BY <1>1, <1>2, Names DEF Covers, Stored
<1>3. CASE t \notin Lists
  BY <1>1, <1>3, Names DEF Covers, Targets, Stored
<1>4. QED BY <1>2, <1>3

-----------------------------------------------------------------------------
(* What any step keeps *)

\* The good entries that deleting or doubting some keys spares.
Spared(keys) == {e \in Entries : Good(e) /\ e \notin keys}

\* How steps change the cache, short of Set.
CacheStep(keys) ==
  \/ cached' = cached /\ keys = {}
  \/ cached' = Doubted(keys)
  \/ cached' = Without(keys)

LEMMA CacheChanges ==
  ASSUME CachedOK, NEW keys, CacheStep(keys)
  PROVE  /\ CachedOK'
         /\ \A e \in Entries : Good(e)' =>
              e \in Spared(keys) /\ cached'[e].value = cached[e].value
<1>1. CASE cached' = cached /\ keys = {}
  BY <1>1 DEF CachedOK, Spared, Good
<1>2. CASE cached' = Doubted(keys)
  <2>1. /\ cached' = [e \in Entries |-> cached'[e]]
        /\ \A e \in Entries : cached'[e] =
             IF e \in keys /\ cached[e].holds
               THEN [cached[e] EXCEPT !.suspect = TRUE] ELSE cached[e]
    BY <1>2 DEF Doubted
  <2>2. QED BY <2>1 DEF CachedOK, Spared, Good
<1>3. CASE cached' = Without(keys)
  <2>1. /\ \A e \in Entries : e \in keys => cached'[e] = None
        /\ \A e \in Entries : e \notin keys => cached'[e] = cached[e]
        /\ cached' = [e \in Entries |-> cached'[e]]
    BY <1>3 DEF Without
  <2>2. QED BY <2>1 DEF CachedOK, Spared, Good, None
<1>4. QED BY <1>1, <1>2, <1>3 DEF CacheStep

LEMMA KnowsLess ==
  ASSUME NEW n, NEW A, NEW B, A \subseteq B, Knows(n, B)
  PROVE  Knows(n, A)
BY DEF Knows

\* What a step owes to the good entries it spares: they stay in their indexes,
\* nobody indexes them once p tidies, and an update does not forget them.
Respects(p, n, keys) ==
  \A e \in Spared(keys) :
    /\ \A i \in TagsOf(e) : e \in index[i] => e \in index'[i]
    /\ Indexing(p, e) => \A i \in Items(op[p].todo) :
         e \in index'[i]
         \/ (n.step = "index" /\ n.on = op[p].on /\ i \in Items(n.todo))
    /\ Tidies(n) /\ ~Tidies(op[p]) => \A q \in Callers : ~Indexing(q, e)
    /\ \A s \in DOMAIN cached[e].value : Owes(op[p], e, s) => Owes(n, e, s)

\* A step of p, to n, that makes no entry good and changes no row.
OpStep(p, n, keys) ==
  /\ op' = [op EXCEPT ![p] = n] /\ IsOp(n)
  /\ row' = row
  /\ index' = [i \in Indexes |-> index'[i]]
  /\ CacheStep(keys)
  /\ Knows(n, Spared(keys))
  /\ Respects(p, n, keys)
  /\ n.step = "index" => At(p, "index") /\ n.on = op[p].on

LEMMA Keeps ==
  ASSUME IInv, NEW p \in Callers, NEW n, NEW keys, OpStep(p, n, keys)
  PROVE  IInv'
<1> USE DEF OpStep
<1>1. op'[p] = n /\ \A q \in Callers : q # p => op'[q] = op[q]
  BY DEF IInv, Shape
<1>2. /\ CachedOK'
      /\ \A e \in Entries : Good(e)' =>
           e \in Spared(keys) /\ cached'[e].value = cached[e].value
  BY CacheChanges DEF IInv, Shape
<1>3. \A e \in Spared(keys) : e \in Entries /\ Good(e)
  BY DEF Spared
<1>4. Shape'
  BY <1>1, <1>2 DEF IInv, Shape
<1>5. Reached'
  <2> SUFFICES ASSUME NEW e \in Entries, Good(e)', NEW i \in TagsOf(e)
               PROVE  e \in index'[i] \/ \E q \in Callers : ToIndex(q, e, i)'
    BY DEF Reached
  <2>1. e \in Spared(keys) /\ Good(e)
    BY <1>2, <1>3
  <2>2. e \in index[i] \/ \E q \in Callers : ToIndex(q, e, i)
    BY <2>1 DEF IInv, Reached
  <2>3. CASE e \in index[i]
    BY <2>1, <2>3 DEF Respects
  <2>4. ASSUME NEW q \in Callers, ToIndex(q, e, i), q # p PROVE ToIndex(q, e, i)'
    BY <1>1, <2>4 DEF ToIndex, Indexing, At
  <2>5. CASE ToIndex(p, e, i)
    <3>1. Indexing(p, e) /\ i \in Items(op[p].todo)
      BY <2>5 DEF ToIndex
    <3>2. e \in index'[i]
          \/ (n.step = "index" /\ n.on = op[p].on /\ i \in Items(n.todo))
      BY <2>1, <3>1 DEF Respects
    <3>3. QED BY <1>1, <3>1, <3>2 DEF ToIndex, Indexing, At
  <2>6. QED BY <2>2, <2>3, <2>4, <2>5
<1>6. NoneIndexed'
  <2> SUFFICES ASSUME NEW r \in Callers, Tidies(op'[r]), NEW e \in Entries, Good(e)',
                      NEW q \in Callers, Indexing(q, e)'
               PROVE  FALSE
    BY DEF NoneIndexed
  <2>1. Indexing(q, e)
    BY <1>1 DEF Indexing, At
  <2>2. e \in Spared(keys) /\ Good(e)
    BY <1>2, <1>3
  <2>3. CASE \E t \in Callers : Tidies(op[t])
    BY <2>1, <2>2, <2>3 DEF IInv, NoneIndexed
  <2>4. CASE ~Tidies(op[r]) /\ ~Tidies(op[p])
    BY <1>1, <2>1, <2>2, <2>4 DEF Respects
  <2>5. QED BY <2>3, <2>4
<1>7. Fresh'
  <2> SUFFICES ASSUME NEW e \in Entries, Good(e)', NEW s \in DOMAIN cached'[e].value
               PROVE  cached'[e].value[s] = row'[s]
                      \/ \E q \in Callers : Owes(op'[q], e, s)
    BY DEF Fresh
  <2>1. e \in Spared(keys) /\ Good(e) /\ cached'[e].value = cached[e].value
    BY <1>2, <1>3
  <2>2. cached[e].value[s] = row[s] \/ \E q \in Callers : Owes(op[q], e, s)
    BY <2>1 DEF IInv, Fresh
  <2>3. ASSUME NEW q \in Callers, q # p, Owes(op[q], e, s) PROVE Owes(op'[q], e, s)
    BY <1>1, <2>3
  <2>4. Owes(op[p], e, s) => Owes(op'[p], e, s)
    BY <1>1, <2>1 DEF Respects
  <2>5. QED BY <2>1, <2>2, <2>3, <2>4
<1>8. Learnt'
  <2> SUFFICES ASSUME NEW q \in Callers PROVE Knows(op'[q], {e \in Entries : Good(e)'})
    BY DEF Learnt
  <2>1. {e \in Entries : Good(e)'} \subseteq Spared(keys)
    BY <1>2
  <2>2. Spared(keys) \subseteq {e \in Entries : Good(e)}
    BY DEF Spared
  <2>3. CASE q = p
    BY <1>1, <2>1, <2>3, KnowsLess
  <2>4. CASE q # p
    <3>1. Knows(op[q], {e \in Entries : Good(e)})
      BY DEF IInv, Learnt
    <3>2. {e \in Entries : Good(e)'} \subseteq {e \in Entries : Good(e)}
      BY <2>1, <2>2
    <3>3. QED BY <1>1, <2>4, <3>1, <3>2, KnowsLess
  <2>5. QED BY <2>3, <2>4
<1>9. QED BY <1>4, <1>5, <1>6, <1>7, <1>8 DEF IInv

LEMMA InitInv == Init => IInv
<1> SUFFICES ASSUME Init PROVE IInv
  OBVIOUS
<1>1. IsOp(NoOp)
  BY Names DEF NoOp, IsOp
<1>2. CachedOK
  BY DEF Init, CachedOK, None
<1>3. Shape
  BY <1>1, <1>2 DEF Init, Shape
<1>4. \A e \in Entries : ~Good(e)
  BY DEF Init, Good, None
<1>5. Learnt
  BY <1>4 DEF Learnt, Knows, Init, NoOp
<1>6. QED BY <1>3, <1>4, <1>5 DEF IInv, Reached, NoneIndexed, Fresh

-----------------------------------------------------------------------------
(* One case per action *)

\* A step between calls that neither tidy nor index.
LEMMA Quiet ==
  ASSUME IInv, NEW p \in Callers, NEW n, op' = [op EXCEPT ![p] = n], IsOp(n),
         row' = row, index' = index, cached' = cached,
         ~Tidies(n), n.step # "index", ~At(p, "index"), LeftBy(op[p]) = {}
  PROVE  IInv'
<1>1. index' = [i \in Indexes |-> index'[i]]
  BY DEF IInv, Shape
<1>2. CacheStep({}) /\ Knows(n, Spared({}))
  BY DEF CacheStep, Knows, Tidies
<1>3. Respects(p, n, {})
  BY DEF Respects, Indexing, Owes
<1>4. OpStep(p, n, {})
  BY <1>1, <1>2, <1>3 DEF OpStep
<1>5. QED BY <1>4, Keeps

LEMMA IdleOp ==
  /\ IsOp(NoOp) /\ ~Tidies(NoOp) /\ NoOp.step = "idle" /\ LeftBy(NoOp) = {}
  /\ NoOp.kind = "fill"
BY Names DEF NoOp, IsOp, Tidies, LeftBy

\* An operation that stops: what it would leave behind is doubted, or nothing is.
LEMMA Stops ==
  ASSUME IInv, NEW p \in Callers, Finish(p), row' = row,
         index' = [i \in Indexes |-> index'[i]], NEW keys, CacheStep(keys),
         \A e \in Spared(keys) :
           /\ \A i \in TagsOf(e) : e \in index[i] => e \in index'[i]
           /\ Indexing(p, e) => \A i \in Items(op[p].todo) : e \in index'[i]
           /\ \A s \in DOMAIN cached[e].value : ~Owes(op[p], e, s)
  PROVE  IInv'
<1>1. op' = [op EXCEPT ![p] = NoOp]
  BY DEF Finish
<1>2. Knows(NoOp, Spared(keys))
  BY IdleOp DEF Knows, Tidies
<1>3. Respects(p, NoOp, keys)
  BY IdleOp DEF Respects
<1>4. OpStep(p, NoOp, keys)
  BY <1>1, <1>2, <1>3, IdleOp DEF OpStep
<1>5. QED BY <1>4, Keeps

LEMMA BeginSteps ==
  ASSUME IInv, NEW p \in Callers, BeginFill(p) \/ BeginUpdate(p)
  PROVE  IInv'
<1>1. PICK n : /\ op' = [op EXCEPT ![p] = n] /\ IsOp(n)
               /\ ~Tidies(n) /\ n.step # "index"
               /\ At(p, "idle") /\ row' = row /\ index' = index /\ cached' = cached
  <2>1. CASE BeginFill(p)
    <3>1. PICK t \in Stored \cup Lists :
            Begin(p, [NoOp EXCEPT !.step = "get", !.on = t]) /\ UNCHANGED cached
      BY <2>1 DEF BeginFill
    <3> DEFINE n == [NoOp EXCEPT !.step = "get", !.on = t]
    <3>2. /\ DOMAIN n = {"step", "kind", "on", "value", "todo", "found", "wrote", "missed"}
          /\ n.step = "get" /\ n.kind = "fill" /\ n.on = t
          /\ n.wrote = FALSE /\ n.missed = FALSE
      BY DEF NoOp
    <3>3. At(p, "idle") /\ row' = row /\ index' = index /\ cached' = cached
          /\ op' = [op EXCEPT ![p] = n]
      BY <3>1 DEF Begin
    <3> HIDE DEF n
    <3>4. IsOp(n) /\ ~Tidies(n) /\ n.step # "index"
      BY <3>2 DEF IsOp, Targets, Tidies
    <3>5. QED BY <3>3, <3>4
  <2>2. CASE BeginUpdate(p)
    <3>1. PICK s \in Stored :
            /\ Begin(p, [NoOp EXCEPT !.step = "write", !.kind = "update", !.on = s])
            /\ UNCHANGED cached
      BY <2>2 DEF BeginUpdate
    <3> DEFINE n == [NoOp EXCEPT !.step = "write", !.kind = "update", !.on = s]
    <3>2. /\ DOMAIN n = {"step", "kind", "on", "value", "todo", "found", "wrote", "missed"}
          /\ n.step = "write" /\ n.kind = "update" /\ n.on = s
          /\ n.wrote = FALSE /\ n.missed = FALSE
      BY DEF NoOp
    <3>3. At(p, "idle") /\ row' = row /\ index' = index /\ cached' = cached
          /\ op' = [op EXCEPT ![p] = n]
      BY <3>1 DEF Begin
    <3> HIDE DEF n
    <3>4. IsOp(n) /\ ~Tidies(n) /\ n.step # "index"
      BY <3>2 DEF IsOp, Tidies
    <3>5. QED BY <3>3, <3>4
  <2>3. QED BY <2>1, <2>2
<1>2. LeftBy(op[p]) = {} /\ ~At(p, "index")
  BY <1>1 DEF LeftBy, At
<1>3. QED BY <1>1, <1>2, Quiet

\* Operation n is r at another step.
Moved(n, r, v) ==
  /\ DOMAIN n = DOMAIN r /\ n.step = v
  /\ n.kind = r.kind /\ n.on = r.on /\ n.value = r.value /\ n.todo = r.todo
  /\ n.found = r.found /\ n.wrote = r.wrote /\ n.missed = r.missed

LEMMA Goes ==
  ASSUME IInv, NEW p \in Callers, NEW v, Goto(p, v)
  PROVE  \E n : op' = [op EXCEPT ![p] = n] /\ Moved(n, op[p], v)
<1> DEFINE n == [op[p] EXCEPT !.step = v]
<1>1. op' = [op EXCEPT ![p] = n]
  BY DEF Goto
<1>2. DOMAIN op[p] = {"step", "kind", "on", "value", "todo", "found", "wrote", "missed"}
  BY DEF IInv, Shape, IsOp
<1>3. Moved(n, op[p], v)
  BY <1>2 DEF Moved
<1>4. QED BY <1>1, <1>3

LEMMA GetStep ==
  ASSUME IInv, NEW p \in Callers, Get(p)
  PROVE  IInv'
<1>1. /\ At(p, "get") /\ IsOp(op[p]) /\ op[p].kind = "fill"
      /\ row' = row /\ index' = index /\ cached' = cached
  BY DEF IInv, Shape, Get, IsOp, At
<1>2. LeftBy(op[p]) = {} /\ ~At(p, "index")
  BY <1>1 DEF LeftBy, At
<1>3. CASE Finish(p)
  BY <1>1, <1>2, <1>3, IdleOp, Quiet DEF Finish
<1>4. CASE Goto(p, "select")
  <2>1. PICK n : op' = [op EXCEPT ![p] = n] /\ Moved(n, op[p], "select")
    BY <1>4, Goes
  <2>2. IsOp(n) /\ ~Tidies(n) /\ n.step # "index"
    BY <1>1, <2>1 DEF Moved, IsOp, Tidies
  <2>3. QED BY <1>1, <1>2, <2>1, <2>2, Quiet
<1>5. QED BY <1>3, <1>4 DEF Get

LEMMA SelectStep ==
  ASSUME IInv, NEW p \in Callers, Select(p)
  PROVE  IInv'
<1>1. /\ At(p, "select") /\ IsOp(op[p]) /\ op[p].kind = "fill"
      /\ row' = row /\ index' = index /\ cached' = cached
  BY DEF IInv, Shape, Select, IsOp, At
<1> DEFINE m == [op[p] EXCEPT !.value = Reading(op[p].on)]
           n == [m EXCEPT !.step = "set"]
<1>2. op' = [op EXCEPT ![p] = n]
  BY DEF Select
<1>3. /\ DOMAIN n = DOMAIN op[p]
      /\ n.step = "set" /\ n.kind = "fill" /\ n.on = op[p].on
      /\ n.value = Reading(op[p].on)
      /\ n.wrote = op[p].wrote /\ n.missed = op[p].missed
  BY <1>1 DEF IsOp
<1> HIDE DEF n
<1>4. n.value = [s \in Covers(n.on) |-> n.value[s]]
  BY <1>3 DEF Reading
<1>5. IsOp(n) /\ ~Tidies(n) /\ n.step # "index"
  BY <1>1, <1>3, <1>4 DEF IsOp, Tidies
<1>6. LeftBy(op[p]) = {} /\ ~At(p, "index")
  BY <1>1 DEF LeftBy, At
<1>7. QED BY <1>1, <1>2, <1>5, <1>6, Quiet

LEMMA Todo ==
  ASSUME NEW S, NEW s \in Seq(S), s # <<>>
  PROVE  /\ Head(s) \in S
         /\ Len(s) = 1 => Items(s) = {Head(s)}
         /\ Len(s) # 1 => Tail(s) \in Seq(S) /\ Tail(s) # <<>>
         /\ \A x \in Items(s) : x = Head(s) \/ (Len(s) # 1 /\ x \in Items(Tail(s)))
<1>1. Len(s) \in Nat /\ Len(s) # 0 /\ DOMAIN s = 1..Len(s) /\ Head(s) = s[1]
  OBVIOUS
<1>2. Head(s) \in S
  BY <1>1
<1>3. Len(s) = 1 => Items(s) = {Head(s)}
  BY <1>1 DEF Items
<1>4. /\ Tail(s) \in Seq(S) /\ Len(Tail(s)) = Len(s) - 1
      /\ DOMAIN Tail(s) = 1..(Len(s) - 1)
      /\ \A i \in 1..(Len(s) - 1) : Tail(s)[i] = s[i + 1]
  BY <1>1
<1>5. Len(s) # 1 => Tail(s) # <<>>
  BY <1>1, <1>4
<1>6. ASSUME NEW i \in 1..Len(s), i # 1
      PROVE  Len(s) # 1 /\ s[i] \in Items(Tail(s))
  <2>1. i - 1 \in 1..(Len(s) - 1) /\ i = (i - 1) + 1
    BY <1>1, <1>6
  <2>2. s[i] = Tail(s)[i - 1] /\ i - 1 \in DOMAIN Tail(s)
    BY <1>4, <2>1
  <2>3. s[i] \in Items(Tail(s))
    BY <2>2 DEF Items
  <2>4. Len(s) # 1
    BY <1>1, <1>6
  <2>5. QED BY <2>3, <2>4
<1>7. \A x \in Items(s) : x = Head(s) \/ (Len(s) # 1 /\ x \in Items(Tail(s)))
  BY <1>1, <1>6 DEF Items
<1>8. QED BY <1>2, <1>3, <1>4, <1>5, <1>7

LEMMA IndexStep ==
  ASSUME IInv, NEW p \in Callers, Index(p)
  PROVE  IInv'
<1> DEFINE f == EntryOf(op[p].on)
           todo == op[p].todo
<1>1. /\ At(p, "index") /\ IsOp(op[p]) /\ op[p].kind = "fill"
      /\ todo \in Seq(Indexes) /\ todo # <<>>
      /\ row' = row /\ cached' = cached
      /\ index' = [index EXCEPT ![Head(todo)] = @ \cup {f}]
  BY DEF IInv, Shape, Index, IsOp, At
<1>2. /\ index' = [i \in Indexes |-> index'[i]] /\ f \in index'[Head(todo)]
      /\ \A i \in Indexes : index[i] \subseteq index'[i]
  BY <1>1, Todo DEF IInv, Shape
<1>3. CacheStep({}) /\ LeftBy(op[p]) = {} /\ \A e : Indexing(p, e) => e = f
  BY <1>1 DEF CacheStep, LeftBy, Indexing
<1>4. \A e \in Spared({}) : \A i \in TagsOf(e) : e \in index[i] => e \in index'[i]
  BY <1>2, Names DEF Spared
<1>5. CASE Len(todo) = 1
  <2>1. Finish(p) /\ \A i \in Items(todo) : f \in index'[i]
    BY <1>1, <1>2, <1>5, Todo DEF Index
  <2>2. QED BY <1>1, <1>2, <1>3, <1>4, <2>1, Stops DEF Owes
<1>6. CASE Len(todo) # 1
  <2> DEFINE n == [op[p] EXCEPT !.todo = Tail(@)]
  <2>1. op' = [op EXCEPT ![p] = n]
    BY <1>6 DEF Index
  <2>2. /\ DOMAIN n = DOMAIN op[p]
        /\ n.step = "index" /\ n.kind = "fill" /\ n.on = op[p].on /\ n.todo = Tail(todo)
        /\ n.wrote = op[p].wrote /\ n.missed = op[p].missed
    BY <1>1 DEF IsOp, At
  <2> HIDE DEF n
  <2>3. Tail(todo) \in Seq(Indexes) /\ Tail(todo) # <<>>
    BY <1>1, <1>6, Todo
  <2>4. IsOp(n) /\ ~Tidies(n) /\ Knows(n, Spared({}))
    BY <1>1, <2>2, <2>3 DEF IsOp, Tidies, Knows
  <2>5. \A i \in Items(todo) : f \in index'[i] \/ i \in Items(n.todo)
    BY <1>1, <1>2, <2>2, Todo
  <2>6. Respects(p, n, {})
    BY <1>3, <1>4, <2>2, <2>4, <2>5 DEF Respects, Owes
  <2>7. OpStep(p, n, {})
    BY <1>1, <1>2, <1>3, <2>1, <2>2, <2>4, <2>6 DEF OpStep
  <2>8. QED BY <2>7, Keeps
<1>7. QED BY <1>5, <1>6

LEMMA InvalidateStep ==
  ASSUME IInv, NEW p \in Callers, Invalidate(p)
  PROVE  IInv'
<1>1. /\ At(p, "write") /\ IsOp(op[p]) /\ op[p].kind = "update" /\ op[p].wrote
      /\ row' = row /\ index' = index /\ cached' = Doubted(BeingIndexed)
  BY DEF IInv, Shape, Invalidate, IsOp, At, Committed
<1>2. PICK n : op' = [op EXCEPT ![p] = n] /\ Moved(n, op[p], "delete")
  BY Goes DEF Invalidate
<1>3. IsOp(n) /\ Knows(n, Spared(BeingIndexed)) /\ LeftBy(n) = LeftBy(op[p])
  BY <1>1, <1>2 DEF Moved, IsOp, Knows, LeftBy, At
<1>4. \A e \in Spared(BeingIndexed) : \A q \in Callers : ~Indexing(q, e)
  BY DEF Spared, BeingIndexed, Indexing
<1>5. Respects(p, n, BeingIndexed)
  BY <1>1, <1>2, <1>3, <1>4 DEF Respects, Owes, Moved
<1>6. OpStep(p, n, BeingIndexed)
  BY <1>1, <1>2, <1>3, <1>5 DEF OpStep, CacheStep, Moved, IInv, Shape
<1>7. QED BY <1>6, Keeps

LEMMA DeleteStep ==
  ASSUME IInv, NEW p \in Callers, Delete(p)
  PROVE  IInv'
<1> DEFINE keys == {EntryOf(op[p].on)}
<1>1. /\ At(p, "delete") /\ IsOp(op[p]) /\ op[p].kind = "update"
      /\ op[p].wrote = TRUE /\ op[p].missed = FALSE
      /\ row' = row /\ index' = index /\ cached' = Without(keys)
  BY DEF IInv, Shape, Delete, IsOp, At
<1>2. PICK n : op' = [op EXCEPT ![p] = n] /\ Moved(n, op[p], "unlist")
  BY Goes DEF Delete
<1>3. IsOp(n) /\ Knows(n, Spared(keys)) /\ Tidies(op[p])
  BY <1>1, <1>2 DEF Moved, IsOp, Knows, Tidies, At, Spared
<1>4. ASSUME NEW e \in Spared(keys), NEW s \in DOMAIN cached[e].value, Owes(op[p], e, s)
      PROVE  Owes(n, e, s)
  <2>1. e \in Entries /\ cached[e].holds /\ s = op[p].on /\ e # EntryOf(s)
    BY <1>4 DEF Spared, Good, Owes
  <2>2. e \in Lists /\ s \in Addresses
    BY <2>1, Covering DEF IInv
  <2>3. QED BY <1>1, <1>2, <2>1, <2>2, Names DEF Owes, LeftBy, Moved
<1>5. Respects(p, n, keys)
  BY <1>1, <1>3, <1>4 DEF Respects, Indexing, At
<1>6. OpStep(p, n, keys)
  BY <1>1, <1>2, <1>3, <1>5 DEF OpStep, CacheStep, Moved, IInv, Shape
<1>7. QED BY <1>6, Keeps

\* An invalidate that has returned, or failed, is followed by the sweep.
LEMMA SweepTagsStep ==
  ASSUME IInv, NEW p \in Callers, NEW missed \in BOOLEAN, SweepTags(p, missed),
         op[p].kind = "update", op[p].step \in {"delete", "unlist"},
         row' = row, index' = [i \in Indexes |-> index'[i]],
         NEW keys, CacheStep(keys),
         \A e \in Spared(keys) : \A i \in TagsOf(e) : e \in index[i] => e \in index'[i],
         op[p].on = Profile => \A e \in Spared(keys) : e \notin LeftBy(op[p]),
         ~missed => EntryOf(op[p].on) \notin Spared(keys)
  PROVE  IInv'
<1>1. IsOp(op[p]) /\ op[p].wrote = TRUE /\ op[p].on \in Stored
  BY DEF IInv, Shape, IsOp
<1>2. CASE op[p].on = Profile
  <2>1. Finish(p)
    BY <1>2 DEF SweepTags
  <2>2. \A e \in Spared(keys) :
          /\ \A i \in TagsOf(e) : e \in index[i] => e \in index'[i]
          /\ Indexing(p, e) => \A i \in Items(op[p].todo) : e \in index'[i]
          /\ \A s \in DOMAIN cached[e].value : ~Owes(op[p], e, s)
    BY <1>2 DEF Indexing, At, Owes
  <2>3. QED BY <2>1, <2>2, Stops
<1>3. CASE op[p].on # Profile
  <2> DEFINE n1 == [op[p] EXCEPT !.step = "members"]
             n2 == [n1 EXCEPT !.missed = missed]
             n == [n2 EXCEPT !.todo = <<"donors", KeyOf[op[p].on]>>]
  <2>1. op' = [op EXCEPT ![p] = n]
    BY <1>3 DEF SweepTags
  <2>2. /\ DOMAIN n = DOMAIN op[p]
        /\ n.step = "members" /\ n.kind = "update" /\ n.on = op[p].on
        /\ n.wrote = TRUE /\ n.missed = missed
        /\ n.todo = <<"donors", KeyOf[op[p].on]>>
    BY <1>1 DEF IsOp
  <2> HIDE DEF n
  <2>3. op[p].on \in Addresses /\ EntryOf(op[p].on) = KeyOf[op[p].on]
    BY <1>1, <1>3, Names DEF Stored
  <2>4. IsOp(n)
    BY <1>1, <2>2, <2>3 DEF IsOp
  <2>5. ReadBy(n) = {}
    <3>1. Items(n.todo) = {"donors", KeyOf[op[p].on]}
      BY <2>2 DEF Items
    <3>2. QED BY <2>2, <3>1 DEF ReadBy, SweptBy
  <2>6. Knows(n, Spared(keys))
    BY <2>2, <2>5 DEF Knows
  <2>7. ASSUME NEW e \in Spared(keys), NEW s \in DOMAIN cached[e].value, Owes(op[p], e, s)
        PROVE  Owes(n, e, s)
    <3>1. e \in Entries /\ cached[e].holds /\ s = op[p].on
      BY <2>7 DEF Spared, Good, Owes
    <3>2. e = EntryOf(s) \/ e \in Lists
      BY <3>1, Covering DEF IInv
    <3>3. e = EntryOf(s) => missed
      BY <3>1
    <3>4. QED BY <1>3, <2>2, <2>3, <3>1, <3>2, <3>3 DEF Owes, LeftBy
  <2>8. Respects(p, n, keys)
    BY <2>7 DEF Respects, Indexing, At, Tidies
  <2>9. OpStep(p, n, keys)
    BY <2>1, <2>2, <2>4, <2>6, <2>8 DEF OpStep
  <2>10. QED BY <2>9, Keeps
<1>4. QED BY <1>2, <1>3

LEMMA UnlistStep ==
  ASSUME IInv, NEW p \in Callers, Unlist(p)
  PROVE  IInv'
<1> DEFINE f == EntryOf(op[p].on)
<1>1. /\ At(p, "unlist") /\ IsOp(op[p]) /\ op[p].kind = "update" /\ ~op[p].missed
      /\ op[p].on \in Stored /\ f \in Entries
      /\ row' = row /\ cached' = cached
      /\ index' = [index EXCEPT ![Scope(f)] = @ \ {f}] /\ SweepTags(p, FALSE)
  BY Names DEF IInv, Shape, Unlist, IsOp, At, Targets
<1>2. f \notin Spared({})
  BY <1>1 DEF IInv, Learnt, Knows, Spared, At
<1>3. /\ index' = [i \in Indexes |-> index'[i]]
      /\ \A i \in Indexes : index[i] \ {f} \subseteq index'[i]
  BY <1>1 DEF IInv, Shape
<1>4. \A e \in Spared({}) : \A i \in TagsOf(e) : e \in index[i] => e \in index'[i]
  BY <1>2, <1>3, Names DEF Spared
<1>5. op[p].on = Profile => LeftBy(op[p]) = {}
  BY <1>1 DEF LeftBy, At
<1>6. CacheStep({}) /\ op[p].step \in {"delete", "unlist"}
  BY <1>1 DEF CacheStep, At
<1>7. QED BY <1>1, <1>2, <1>3, <1>4, <1>5, <1>6, SweepTagsStep

LEMMA BeginTidying ==
  ASSUME IInv, NEW p \in Callers, BeginClear(p) \/ BeginStats(p)
  PROVE  IInv'
<1> DEFINE keys == BeingIndexed
<1>1. PICK n : /\ op' = [op EXCEPT ![p] = n] /\ IsOp(n) /\ n.step = "members"
               /\ n.kind # "update" /\ (n.kind = "clear" => n.todo = <<n.todo[1]>>)
               /\ At(p, "idle") /\ row' = row /\ index' = index
               /\ cached' = Doubted(keys)
  <2>1. CASE BeginClear(p)
    <3>1. PICK e \in Entries :
            /\ Begin(p, [NoOp EXCEPT !.step = "members", !.kind = "clear",
                           !.todo = <<Scope(e)>>])
            /\ cached' = Doubted(BeingIndexed)
      BY <2>1 DEF BeginClear
    <3> DEFINE n == [NoOp EXCEPT !.step = "members", !.kind = "clear",
                                 !.todo = <<Scope(e)>>]
    <3>2. /\ DOMAIN n = {"step", "kind", "on", "value", "todo", "found", "wrote", "missed"}
          /\ n.step = "members" /\ n.kind = "clear" /\ n.todo = <<Scope(e)>>
          /\ n.wrote = FALSE /\ n.missed = FALSE
      BY DEF NoOp
    <3>3. At(p, "idle") /\ row' = row /\ index' = index /\ op' = [op EXCEPT ![p] = n]
      BY <3>1 DEF Begin
    <3> HIDE DEF n
    <3>4. <<Scope(e)>>[1] = Scope(e)
      OBVIOUS
    <3>5. n.todo = <<n.todo[1]>>
      BY <3>2, <3>4
    <3>6. IsOp(n)
      BY <3>2, <3>5 DEF IsOp
    <3>7. QED BY <3>1, <3>2, <3>3, <3>5, <3>6
  <2>2. CASE BeginStats(p)
    <3>1. PICK e \in Entries :
            /\ Begin(p, [NoOp EXCEPT !.step = "members", !.kind = "stats",
                           !.todo = <<Scope(e)>>])
            /\ cached' = Doubted(BeingIndexed)
      BY <2>2 DEF BeginStats
    <3> DEFINE n == [NoOp EXCEPT !.step = "members", !.kind = "stats",
                                 !.todo = <<Scope(e)>>]
    <3>2. /\ DOMAIN n = {"step", "kind", "on", "value", "todo", "found", "wrote", "missed"}
          /\ n.step = "members" /\ n.kind = "stats"
          /\ n.wrote = FALSE /\ n.missed = FALSE
      BY DEF NoOp
    <3>3. At(p, "idle") /\ row' = row /\ index' = index /\ op' = [op EXCEPT ![p] = n]
      BY <3>1 DEF Begin
    <3> HIDE DEF n
    <3>4. IsOp(n)
      BY <3>2 DEF IsOp
    <3>5. QED BY <3>1, <3>2, <3>3, <3>4
  <2>3. QED BY <2>1, <2>2
<1>2. IsOp(op[p]) /\ LeftBy(op[p]) = {}
  BY <1>1 DEF IInv, Shape, IsOp, LeftBy, At
<1>3. Knows(n, Spared(keys))
  <2>1. n.kind = "clear" => ReadBy(n) = {}
    BY <1>1 DEF ReadBy, SweptBy, Items
  <2>2. n.kind \in {"clear", "stats"}
    BY <1>1 DEF IsOp
  <2>3. QED BY <1>1, <2>1, <2>2 DEF Knows
<1>4. \A e \in Spared(keys) : \A q \in Callers : ~Indexing(q, e)
  BY DEF Spared, BeingIndexed, Indexing
<1>5. Respects(p, n, keys)
  BY <1>1, <1>2, <1>4 DEF Respects, Owes
<1>6. OpStep(p, n, keys)
  BY <1>1, <1>3, <1>5 DEF OpStep, CacheStep, IInv, Shape
<1>7. QED BY <1>6, Keeps

LEMMA MembersStep ==
  ASSUME IInv, NEW p \in Callers, Members(p)
  PROVE  IInv'
<1> DEFINE i == Head(op[p].todo)
           found == op[p].found \cup index[i]
           next == AfterMembers(op[p].kind, found)
<1>1. /\ At(p, "members") /\ IsOp(op[p]) /\ op[p].step = "members"
      /\ op[p].kind \in {"update", "clear", "stats"}
      /\ row' = row /\ cached' = cached /\ index' = index
  BY DEF IInv, Shape, Members, IsOp, At
<1>2. Tidies(op[p]) /\ CacheStep({}) /\ index' = [j \in Indexes |-> index'[j]]
  BY <1>1 DEF Tidies, CacheStep, IInv, Shape
<1>3. \A e \in Spared({}) : i \in TagsOf(e) => e \in found
  BY <1>2 DEF IInv, Reached, NoneIndexed, ToIndex, Spared
<1>4. op[p].kind # "stats" =>
        \A e \in Spared({}) : TagsOf(e) \cap ReadBy(op[p]) # {} => e \in found
  BY <1>1 DEF IInv, Learnt, Knows, Spared
<1>5. op[p].kind = "update" /\ ~op[p].missed => EntryOf(op[p].on) \notin Spared({})
  BY <1>1 DEF IInv, Learnt, Knows, Spared
<1>6. CASE Len(op[p].todo) > 1
  <2> DEFINE n1 == [op[p] EXCEPT !.todo = Tail(@)]
             n == [n1 EXCEPT !.found = found]
  <2>1. op' = [op EXCEPT ![p] = n]
    BY <1>6 DEF Members
  <2>2. /\ DOMAIN n = DOMAIN op[p] /\ n.step = "members" /\ n.kind = op[p].kind
        /\ n.on = op[p].on /\ n.todo = Tail(op[p].todo) /\ n.found = found
        /\ n.wrote = op[p].wrote /\ n.missed = op[p].missed
    BY <1>1 DEF IsOp
  <2> HIDE DEF n, found, next
  <2>3. n.kind \in {"update", "stats"}
    <3>1. CASE op[p].kind = "clear"
      <4>1. op[p].todo = <<op[p].todo[1]>>
        BY <1>1, <3>1 DEF IsOp
      <4>2. \A s, x : s = <<x>> => ~(Len(s) > 1)
        OBVIOUS
      <4>3. QED BY <1>6, <4>1, <4>2
    <3>2. QED BY <1>1, <2>2, <3>1
  <2>4. n.kind = "update" => op[p].todo = <<"donors", KeyOf[op[p].on]>>
                            /\ n.todo = <<KeyOf[op[p].on]>> /\ i = "donors"
    <3> SUFFICES ASSUME n.kind = "update"
                 PROVE  op[p].todo = <<"donors", KeyOf[op[p].on]>>
                        /\ n.todo = <<KeyOf[op[p].on]>> /\ i = "donors"
      OBVIOUS
    <3>1. \A s, x : s = <<x>> => ~(Len(s) > 1)
      OBVIOUS
    <3>2. op[p].todo # <<KeyOf[op[p].on]>>
      BY <1>6, <3>1
    <3>3. op[p].todo = <<"donors", KeyOf[op[p].on]>>
      BY <1>1, <2>2, <3>2 DEF IsOp
    <3>4. /\ Tail(<<"donors", KeyOf[op[p].on]>>) = <<KeyOf[op[p].on]>>
          /\ Head(<<"donors", KeyOf[op[p].on]>>) = "donors"
      OBVIOUS
    <3>5. QED BY <2>2, <3>3, <3>4
  <2>5. IsOp(n)
    BY <1>1, <2>2, <2>3, <2>4 DEF IsOp
  <2>6. n.kind = "update" => ReadBy(n) \subseteq ReadBy(op[p]) \cup {i}
    BY <1>1, <2>2, <2>4 DEF ReadBy, SweptBy, Items
  <2>7. Knows(n, Spared({}))
    BY <1>3, <1>4, <1>5, <2>2, <2>3, <2>6 DEF Knows
  <2>8. Respects(p, n, {})
    BY <1>1, <1>2, <2>2 DEF Respects, Indexing, At, Owes, LeftBy
  <2>9. OpStep(p, n, {})
    BY <1>1, <1>2, <2>1, <2>2, <2>5, <2>7, <2>8 DEF OpStep
  <2>10. QED BY <2>9, Keeps
<1>7. CASE ~(Len(op[p].todo) > 1) /\ op[p].kind = "stats"
  <2>1. LeftBy(op[p]) = {}
    BY <1>7 DEF LeftBy
  <2>2. CASE next = "idle"
    <3>1. Finish(p)
      BY <1>7, <2>2 DEF Members
    <3>2. QED BY <1>1, <2>1, <3>1, IdleOp, Quiet DEF Finish, At
  <2>3. CASE next = "exists"
    <3> DEFINE n1 == [op[p] EXCEPT !.step = next]
               n2 == [n1 EXCEPT !.found = {}]
               n == [n2 EXCEPT !.todo = SetToSeq(found)]
    <3>1. op' = [op EXCEPT ![p] = n]
      BY <1>7, <2>3 DEF Members
    <3>2. /\ DOMAIN n = DOMAIN op[p] /\ n.step = "exists" /\ n.kind = "stats"
          /\ n.found = {} /\ n.wrote = op[p].wrote /\ n.missed = op[p].missed
      BY <1>1, <1>7, <2>3 DEF IsOp
    <3> HIDE DEF n
    <3>3. IsOp(n) /\ Knows(n, Spared({}))
      BY <1>1, <3>2 DEF IsOp, Knows
    <3>4. Respects(p, n, {})
      BY <1>1, <1>2, <2>1, <3>2 DEF Respects, Indexing, At, Owes
    <3>5. OpStep(p, n, {})
      BY <1>1, <1>2, <3>1, <3>2, <3>3, <3>4 DEF OpStep
    <3>6. QED BY <3>5, Keeps
  <2>4. QED BY <1>7, <2>2, <2>3 DEF AfterMembers
<1>8. CASE ~(Len(op[p].todo) > 1) /\ op[p].kind # "stats"
  <2> DEFINE n1 == [op[p] EXCEPT !.step = next]
             n == [n1 EXCEPT !.found = found]
  <2>1. /\ next = (IF found = {} THEN "dropIndexes" ELSE "drop")
        /\ next # "idle" /\ next # "exists"
    BY <1>8 DEF AfterMembers
  <2>2. op' = [op EXCEPT ![p] = n]
    BY <1>8, <2>1 DEF Members
  <2>3. /\ DOMAIN n = DOMAIN op[p] /\ n.step = next /\ n.kind = op[p].kind
        /\ n.on = op[p].on /\ n.todo = op[p].todo /\ n.found = found
        /\ n.wrote = op[p].wrote /\ n.missed = op[p].missed
    BY <1>1 DEF IsOp
  <2> HIDE DEF n, found, next
  <2>4. /\ IsOp(n) /\ SweptBy(n) = SweptBy(op[p])
        /\ op[p].kind = "update" => op[p].on \in Addresses /\ op[p].wrote = TRUE
    BY <1>1, <1>8, <2>1, <2>3 DEF IsOp, SweptBy
  <2>5. SweptBy(op[p]) \subseteq ReadBy(op[p]) \cup {i}
    <3>1. op[p].kind = "update" => op[p].todo = <<KeyOf[op[p].on]>>
      <4>1. CASE op[p].todo = <<"donors", KeyOf[op[p].on]>>
        BY <1>8, <4>1
      <4>2. QED BY <1>1, <4>1 DEF IsOp
    <3>2. op[p].kind = "clear" => op[p].todo = <<op[p].todo[1]>>
      BY <1>1 DEF IsOp
    <3>3. Items(op[p].todo) = {i}
      BY <1>1, <1>8, <3>1, <3>2 DEF Items
    <3>4. QED BY <1>1, <3>3 DEF ReadBy
  <2>6. \A e \in Spared({}) : TagsOf(e) \cap SweptBy(n) # {} => e \in found
    BY <1>3, <1>4, <1>8, <2>4, <2>5
  <2>7. Knows(n, Spared({}))
    BY <1>5, <2>1, <2>3, <2>6 DEF Knows, ReadBy
  <2>8. ASSUME NEW e \in Spared({}), NEW s \in DOMAIN cached[e].value, Owes(op[p], e, s)
        PROVE  Owes(n, e, s)
    <3>1. e \in Entries /\ cached[e].holds /\ s = op[p].on /\ op[p].kind = "update"
      BY <2>8 DEF Spared, Good, Owes, LeftBy
    <3>2. "donors" \in TagsOf(e) /\ "donors" \in SweptBy(n)
      BY <2>3, <2>4, <3>1, Covering DEF IInv, SweptBy
    <3>3. found # {}
      BY <2>6, <3>2
    <3>4. n.step = "drop"
      BY <2>1, <2>3, <3>3
    <3>5. QED BY <1>1, <2>3, <2>8, <3>4 DEF Owes, LeftBy
  <2>9. Respects(p, n, {})
    BY <1>1, <1>2, <2>8 DEF Respects, Indexing, At
  <2>10. OpStep(p, n, {})
    BY <1>1, <1>2, <2>1, <2>2, <2>3, <2>4, <2>7, <2>9 DEF OpStep
  <2>11. QED BY <2>10, Keeps
<1>9. QED BY <1>6, <1>7, <1>8

LEMMA SweptIs ==
  ASSUME NEW p
  PROVE  Swept(p) = SweptBy(op[p])
BY DEF Swept, SweptBy

\* Once the keys found are deleted, no good entry has a tag that is swept.
LEMMA DropStep ==
  ASSUME IInv, NEW p \in Callers, Drop(p)
  PROVE  IInv'
<1> DEFINE keys == op[p].found
           v == IF op[p].kind = "clear" THEN "dropIndexes" ELSE "unlistFound"
<1>1. /\ op[p].step = "drop" /\ IsOp(op[p]) /\ op[p].kind \in {"update", "clear"}
      /\ op[p].kind = "update" => op[p].on \in Addresses
      /\ row' = row /\ index' = index /\ cached' = Without(keys)
  BY DEF IInv, Shape, Drop, IsOp, At
<1>2. PICK n : op' = [op EXCEPT ![p] = n] /\ Moved(n, op[p], v)
  BY Goes DEF Drop
<1>3. \A e \in Spared(keys) : e \notin op[p].found /\ TagsOf(e) \cap SweptBy(op[p]) = {}
  BY <1>1 DEF IInv, Learnt, Knows, ReadBy, Spared
<1>4. IsOp(n) /\ SweptBy(n) = SweptBy(op[p]) /\ Tidies(op[p])
  BY <1>1, <1>2 DEF Moved, IsOp, SweptBy, Tidies
<1>5. Knows(n, Spared(keys))
  BY <1>1, <1>2, <1>3, <1>4 DEF Moved, Knows
<1>6. ASSUME NEW e \in Spared(keys), NEW s \in DOMAIN cached[e].value
      PROVE  ~Owes(op[p], e, s)
  <2> SUFFICES ASSUME Owes(op[p], e, s) PROVE FALSE
    OBVIOUS
  <2>1. e \in Entries /\ cached[e].holds /\ s = op[p].on /\ op[p].kind = "update"
    BY <1>6 DEF Spared, Good, Owes, LeftBy
  <2>2. "donors" \in TagsOf(e) /\ "donors" \in SweptBy(op[p])
    BY <1>1, <2>1, Covering DEF IInv, SweptBy
  <2>3. QED BY <1>3, <2>2
<1>7. Respects(p, n, keys)
  BY <1>1, <1>4, <1>6 DEF Respects, Indexing, At
<1>8. OpStep(p, n, keys)
  BY <1>1, <1>2, <1>4, <1>5, <1>7 DEF OpStep, CacheStep, Moved, IInv, Shape
<1>9. QED BY <1>8, Keeps

LEMMA UnlistFoundStep ==
  ASSUME IInv, NEW p \in Callers, UnlistFound(p)
  PROVE  IInv'
<1>1. /\ op[p].step = "unlistFound" /\ IsOp(op[p]) /\ op[p].kind = "update"
      /\ row' = row /\ cached' = cached
      /\ index' = [index EXCEPT !["donor-records"] = @ \ op[p].found]
  BY DEF IInv, Shape, UnlistFound, IsOp, At
<1>2. PICK n : op' = [op EXCEPT ![p] = n] /\ Moved(n, op[p], "dropIndexes")
  BY Goes DEF UnlistFound
<1>3. \A e \in Spared({}) : e \notin op[p].found /\ TagsOf(e) \cap SweptBy(op[p]) = {}
  BY <1>1 DEF IInv, Learnt, Knows, Spared
<1>4. /\ index' = [i \in Indexes |-> index'[i]]
      /\ \A i \in Indexes : index[i] \ op[p].found \subseteq index'[i]
  BY <1>1 DEF IInv, Shape
<1>5. /\ IsOp(n) /\ SweptBy(n) = SweptBy(op[p]) /\ Tidies(op[p])
      /\ LeftBy(op[p]) = {} /\ CacheStep({})
  BY <1>1, <1>2 DEF Moved, IsOp, SweptBy, Tidies, LeftBy, CacheStep
<1>6. Knows(n, Spared({}))
  BY <1>2, <1>3, <1>5 DEF Moved, Knows
<1>7. \A e \in Spared({}) : \A i \in TagsOf(e) : e \in index[i] => e \in index'[i]
  BY <1>3, <1>4, Names DEF Spared
<1>8. Respects(p, n, {})
  BY <1>1, <1>5, <1>7 DEF Respects, Indexing, At, Owes
<1>9. OpStep(p, n, {})
  BY <1>1, <1>2, <1>4, <1>5, <1>6, <1>8 DEF OpStep, Moved
<1>10. QED BY <1>9, Keeps

LEMMA DropIndexesStep ==
  ASSUME IInv, NEW p \in Callers, DropIndexes(p)
  PROVE  IInv'
<1>1. /\ op[p].step = "dropIndexes" /\ Finish(p) /\ row' = row /\ cached' = cached
      /\ index' = [i \in Indexes |-> IF i \in SweptBy(op[p]) THEN {} ELSE index[i]]
  BY SweptIs DEF DropIndexes, At
<1>2. \A e \in Spared({}) : TagsOf(e) \cap SweptBy(op[p]) = {}
  BY <1>1 DEF IInv, Learnt, Knows, Spared
<1>3. /\ index' = [i \in Indexes |-> index'[i]]
      /\ \A i \in Indexes \ SweptBy(op[p]) : index'[i] = index[i]
  BY <1>1
<1>4. \A e \in Spared({}) : \A i \in TagsOf(e) : e \in index[i] => e \in index'[i]
  BY <1>2, <1>3, Names DEF Spared
<1>5. LeftBy(op[p]) = {} /\ CacheStep({}) /\ ~At(p, "index")
  BY <1>1 DEF LeftBy, CacheStep, At
<1>6. QED BY <1>1, <1>3, <1>4, <1>5, Stops DEF Indexing, Owes

LEMMA ExistsStep ==
  ASSUME IInv, NEW p \in Callers, Exists(p)
  PROVE  IInv'
<1> DEFINE e == Head(op[p].todo)
           stale == op[p].found \cup (IF cached[e].holds THEN {} ELSE {e})
<1>1. /\ op[p].step = "exists" /\ IsOp(op[p]) /\ op[p].kind = "stats"
      /\ row' = row /\ index' = index /\ cached' = cached
  BY DEF IInv, Shape, Exists, IsOp, At
<1>2. \A x \in Spared({}) : x \notin stale
  BY <1>1 DEF IInv, Learnt, Knows, Spared, Good
<1>3. /\ LeftBy(op[p]) = {} /\ CacheStep({}) /\ Tidies(op[p]) /\ ~At(p, "index")
      /\ index' = [i \in Indexes |-> index'[i]]
  BY <1>1 DEF LeftBy, CacheStep, Tidies, At, IInv, Shape
<1>4. ASSUME NEW n, op' = [op EXCEPT ![p] = n], DOMAIN n = DOMAIN op[p],
             n.step \in {"exists", "prune"}, n.kind = "stats", n.found = stale,
             n.wrote = op[p].wrote, n.missed = op[p].missed
      PROVE  IInv'
  <2>1. IsOp(n) /\ Knows(n, Spared({}))
    BY <1>1, <1>2, <1>4 DEF IsOp, Knows
  <2>2. Respects(p, n, {})
    BY <1>1, <1>3 DEF Respects, Indexing, Owes
  <2>3. OpStep(p, n, {})
    BY <1>1, <1>3, <1>4, <2>1, <2>2 DEF OpStep
  <2>4. QED BY <2>3, Keeps
<1>5. CASE Len(op[p].todo) > 1
  <2> DEFINE n1 == [op[p] EXCEPT !.todo = Tail(@)]
             n == [n1 EXCEPT !.found = stale]
  <2>1. op' = [op EXCEPT ![p] = n]
    BY <1>5 DEF Exists
  <2>2. /\ DOMAIN n = DOMAIN op[p] /\ n.step = "exists" /\ n.kind = "stats"
        /\ n.found = stale /\ n.wrote = op[p].wrote /\ n.missed = op[p].missed
    BY <1>1 DEF IsOp
  <2> HIDE DEF n, stale
  <2>3. QED BY <1>4, <2>1, <2>2
<1>6. CASE ~(Len(op[p].todo) > 1) /\ stale = {}
  <2>1. Finish(p)
    BY <1>6 DEF Exists
  <2>2. QED BY <1>1, <1>3, <2>1, IdleOp, Quiet DEF Finish
<1>7. CASE ~(Len(op[p].todo) > 1) /\ stale # {}
  <2> DEFINE n1 == [op[p] EXCEPT !.step = "prune"]
             n == [n1 EXCEPT !.found = stale]
  <2>1. op' = [op EXCEPT ![p] = n]
    BY <1>7 DEF Exists
  <2>2. /\ DOMAIN n = DOMAIN op[p] /\ n.step = "prune" /\ n.kind = "stats"
        /\ n.found = stale /\ n.wrote = op[p].wrote /\ n.missed = op[p].missed
    BY <1>1 DEF IsOp
  <2> HIDE DEF n, stale
  <2>3. QED BY <1>4, <2>1, <2>2
<1>8. QED BY <1>5, <1>6, <1>7

LEMMA PruneStep ==
  ASSUME IInv, NEW p \in Callers, Prune(p)
  PROVE  IInv'
<1>1. PICK scope : index' = [index EXCEPT ![scope] = @ \ op[p].found]
  BY DEF Prune
<1>2. /\ op[p].step = "prune" /\ op[p].kind = "stats" /\ Finish(p)
      /\ row' = row /\ cached' = cached
  BY DEF IInv, Shape, Prune, IsOp, At
<1>3. \A e \in Spared({}) : e \notin op[p].found
  BY <1>2 DEF IInv, Learnt, Knows, Spared
<1>4. /\ index' = [i \in Indexes |-> index'[i]]
      /\ \A i \in Indexes : index[i] \ op[p].found \subseteq index'[i]
  BY <1>1 DEF IInv, Shape
<1>5. \A e \in Spared({}) : \A i \in TagsOf(e) : e \in index[i] => e \in index'[i]
  BY <1>3, <1>4, Names DEF Spared
<1>6. LeftBy(op[p]) = {} /\ CacheStep({}) /\ ~At(p, "index")
  BY <1>2 DEF LeftBy, CacheStep, At
<1>7. QED BY <1>2, <1>4, <1>5, <1>6, Stops DEF Indexing, Owes

LEMMA LeftIs ==
  ASSUME NEW p
  PROVE  LeftBehind(p) = LeftBy(op[p])
BY DEF LeftBehind, LeftBy

\* An operation given up while the entries it leaves behind are doubted.
LEMMA GivenUp ==
  ASSUME IInv, NEW p \in Callers, Finish(p), row' = row, index' = index,
         NEW keys, CacheStep(keys), LeftBy(op[p]) \subseteq keys,
         At(p, "index") => EntryOf(op[p].on) \in keys
  PROVE  IInv'
<1>1. index' = [i \in Indexes |-> index'[i]]
  BY DEF IInv, Shape
<1>2. \A e \in Spared(keys) : e \notin keys
  BY DEF Spared
<1>3. QED BY <1>1, <1>2, Stops DEF Indexing, Owes

LEMMA FaultStep ==
  ASSUME IInv, NEW p \in Callers, Fault(p)
  PROVE  IInv'
<1>1. row' = row /\ index' = index /\ IsOp(op[p])
  BY DEF Fault, IInv, Shape
<1>2. CASE At(p, "get") /\ Goto(p, "select") /\ UNCHANGED cached
  <2>1. PICK n : op' = [op EXCEPT ![p] = n] /\ Moved(n, op[p], "select")
    BY <1>2, Goes
  <2>2. op[p].kind = "fill" /\ LeftBy(op[p]) = {} /\ ~At(p, "index")
    BY <1>1, <1>2 DEF IsOp, LeftBy, At
  <2>3. IsOp(n) /\ ~Tidies(n) /\ n.step # "index"
    BY <1>1, <2>1, <2>2 DEF Moved, IsOp, Tidies
  <2>4. QED BY <1>1, <1>2, <2>1, <2>2, <2>3, Quiet
<1>3. CASE /\ At(p, "delete") \/ At(p, "unlist")
           /\ SweepTags(p, At(p, "delete"))
           /\ cached' = IF op[p].on = Profile THEN Doubted(LeftBehind(p)) ELSE cached
  <2> DEFINE keys == IF op[p].on = Profile THEN LeftBehind(p) ELSE {}
  <2>1. op[p].kind = "update" /\ op[p].step \in {"delete", "unlist"} /\ ~op[p].missed
    BY <1>1, <1>3 DEF IsOp, At
  <2>2. CacheStep(keys) /\ index' = [i \in Indexes |-> index'[i]]
    BY <1>1, <1>3 DEF CacheStep, IInv, Shape
  <2>3. op[p].on = Profile => \A e \in Spared(keys) : e \notin LeftBy(op[p])
    BY LeftIs DEF Spared
  <2>4. ~At(p, "delete") => EntryOf(op[p].on) \notin Spared(keys)
    <3>1. ~At(p, "delete") => EntryOf(op[p].on) \notin {e \in Entries : Good(e)}
      BY <2>1 DEF IInv, Learnt, Knows, At
    <3>2. QED BY <3>1 DEF Spared
  <2>5. \A e \in Spared(keys) : \A i \in TagsOf(e) : e \in index[i] => e \in index'[i]
    BY <1>1
  <2>6. At(p, "delete") \in BOOLEAN
    BY DEF At
  <2> HIDE DEF keys
  <2>7. QED BY <1>1, <1>3, <2>1, <2>2, <2>3, <2>4, <2>5, <2>6, SweepTagsStep
<1>4. CASE At(p, "set") /\ Finish(p) /\ UNCHANGED cached
  <2>1. LeftBy(op[p]) = {} /\ CacheStep({}) /\ ~At(p, "index")
    BY <1>1, <1>4 DEF IsOp, LeftBy, At, CacheStep
  <2>2. QED BY <1>1, <1>4, <2>1, GivenUp
<1>5. CASE At(p, "index") /\ Finish(p) /\ cached' = Doubted({EntryOf(op[p].on)})
  <2>1. LeftBy(op[p]) = {} /\ CacheStep({EntryOf(op[p].on)})
    BY <1>1, <1>5 DEF IsOp, LeftBy, At, CacheStep
  <2>2. QED BY <1>1, <1>5, <2>1, GivenUp
<1>6. CASE /\ Tidying(p) /\ ~At(p, "delete") /\ ~At(p, "unlist")
           /\ Finish(p) /\ cached' = Doubted(LeftBehind(p))
  <2>1. LeftBy(op[p]) = LeftBehind(p) /\ CacheStep(LeftBehind(p)) /\ ~At(p, "index")
    BY <1>6, LeftIs DEF CacheStep, Tidying, At
  <2>2. QED BY <1>1, <1>6, <2>1, GivenUp
<1>7. QED BY <1>2, <1>3, <1>4, <1>5, <1>6 DEF Fault

LEMMA CrashStep ==
  ASSUME IInv, NEW p \in Callers, Crash(p)
  PROVE  IInv'
<1> DEFINE keys == LeftBehind(p)
             \cup (IF At(p, "index") THEN {EntryOf(op[p].on)} ELSE {})
<1>1. /\ Finish(p) /\ row' = row /\ index' = index
      /\ CacheStep(keys) /\ LeftBy(op[p]) \subseteq keys
      /\ At(p, "index") => EntryOf(op[p].on) \in keys
  BY LeftIs DEF Crash, CacheStep
<1> HIDE DEF keys
<1>2. QED BY <1>1, GivenUp

LEMMA RestartStep ==
  ASSUME IInv, Restart
  PROVE  IInv'
<1>1. IsOp(NoOp)
  BY IdleOp
<1>2. CachedOK' /\ \A e \in Entries : ~Good(e)'
  BY DEF Restart, CachedOK, None, Good
<1>3. Shape'
  BY <1>1, <1>2 DEF Restart, IInv, Shape
<1>4. Learnt'
  BY <1>2 DEF Learnt, Knows, Restart, NoOp
<1>5. QED BY <1>2, <1>3, <1>4 DEF IInv, Reached, NoneIndexed, Fresh

\* Entries go and nothing else happens.
LEMMA Loses ==
  ASSUME IInv, op' = op, row' = row, index' = index, NEW keys, CacheStep(keys)
  PROVE  IInv'
<1>1. /\ CachedOK'
      /\ \A e \in Entries : Good(e)' => Good(e) /\ cached'[e].value = cached[e].value
  BY CacheChanges DEF IInv, Shape, Spared
<1>2. Shape'
  BY <1>1 DEF IInv, Shape
<1>3. Reached'
  BY <1>1 DEF IInv, Reached, ToIndex, Indexing, At
<1>4. NoneIndexed'
  BY <1>1 DEF IInv, NoneIndexed, Indexing, At
<1>5. Fresh'
  <2> SUFFICES ASSUME NEW e \in Entries, Good(e)', NEW s \in DOMAIN cached'[e].value
               PROVE  cached'[e].value[s] = row'[s]
                      \/ \E q \in Callers : Owes(op'[q], e, s)
    BY DEF Fresh
  <2>1. QED BY <1>1 DEF IInv, Fresh
<1>6. Learnt'
  <2>1. {e \in Entries : Good(e)'} \subseteq {e \in Entries : Good(e)}
    BY <1>1
  <2>2. \A q \in Callers : Knows(op[q], {e \in Entries : Good(e)})
    BY DEF IInv, Learnt
  <2>3. \A q \in Callers : Knows(op'[q], {e \in Entries : Good(e)'})
    BY <2>1, <2>2, KnowsLess
  <2>4. QED BY <2>3 DEF Learnt
<1>7. QED BY <1>2, <1>3, <1>4, <1>5, <1>6 DEF IInv

LEMMA WriteStep ==
  ASSUME IInv, NEW p \in Callers, Write(p)
  PROVE  IInv'
<1> DEFINE n == [op[p] EXCEPT !.wrote = TRUE]
<1>1. /\ op' = [op EXCEPT ![p] = n] /\ IsOp(op[p])
      /\ op[p].step = "write" /\ op[p].kind = "update"
      /\ cached' = cached /\ index' = index
      /\ row' = [row EXCEPT ![op[p].on] = writes']
  BY DEF IInv, Shape, Write, IsOp, At
<1>2. /\ DOMAIN n = DOMAIN op[p] /\ n.step = "write" /\ n.kind = "update"
      /\ n.on = op[p].on /\ n.wrote = TRUE /\ n.missed = op[p].missed
  BY <1>1 DEF IsOp
<1> HIDE DEF n
<1>3. IsOp(n) /\ ~Tidies(n) /\ ~Tidies(op[p])
  BY <1>1, <1>2 DEF IsOp, Tidies
<1>4. op'[p] = n /\ \A q \in Callers : q # p => op'[q] = op[q]
  BY <1>1 DEF IInv, Shape
<1>5. /\ Shape' /\ \A e \in Entries : Good(e)' = Good(e)
      /\ \A s \in Stored : s # op[p].on => row'[s] = row[s]
  BY <1>1, <1>3, <1>4 DEF IInv, Shape, CachedOK, Good
<1>6. \A q \in Callers, e \in Entries :
        /\ Indexing(q, e)' = Indexing(q, e)
        /\ \A i : ToIndex(q, e, i)' = ToIndex(q, e, i)
  BY <1>1, <1>2, <1>4 DEF Indexing, ToIndex, At
<1>7. Reached'
  BY <1>1, <1>5, <1>6 DEF IInv, Reached
<1>8. NoneIndexed'
  BY <1>3, <1>4, <1>5, <1>6 DEF IInv, NoneIndexed
<1>9. Fresh'
  <2> SUFFICES ASSUME NEW e \in Entries, Good(e), NEW s \in DOMAIN cached[e].value
               PROVE  cached[e].value[s] = row'[s]
                      \/ \E q \in Callers : Owes(op'[q], e, s)
    BY <1>1, <1>5 DEF Fresh
  <2>1. s \in Stored /\ Scope(e) = Scope(EntryOf(s))
    BY Covering DEF IInv, Good
  <2>2. CASE s = op[p].on
    <3>1. Owes(n, e, s)
      BY <1>2, <2>1, <2>2 DEF Owes, LeftBy
    <3>2. QED BY <1>4, <3>1
  <2>3. CASE s # op[p].on
    <3>1. cached[e].value[s] = row[s] \/ \E q \in Callers : Owes(op[q], e, s)
      BY DEF IInv, Fresh
    <3>2. ~Owes(op[p], e, s)
      BY <2>3 DEF Owes
    <3>3. QED BY <1>4, <1>5, <2>1, <2>3, <3>1, <3>2
  <2>4. QED BY <2>2, <2>3
<1>10. Learnt'
  <2>1. \A q \in Callers : Knows(op[q], {e \in Entries : Good(e)})
    BY DEF IInv, Learnt
  <2>2. \A q \in Callers : Knows(op'[q], {e \in Entries : Good(e)})
    BY <1>2, <1>4, <2>1 DEF Knows
  <2>3. {e \in Entries : Good(e)'} \subseteq {e \in Entries : Good(e)}
    BY <1>5
  <2>4. \A q \in Callers : Knows(op'[q], {e \in Entries : Good(e)'})
    BY <2>2, <2>3, KnowsLess
  <2>5. QED BY <2>4 DEF Learnt
<1>11. QED BY <1>5, <1>7, <1>8, <1>9, <1>10 DEF IInv

\* The one step that makes an entry good: what it holds is current, nobody
\* tidies, and its caller still has every index to write.
LEMMA SetStep ==
  ASSUME IInv, NEW p \in Callers, Set(p)
  PROVE  IInv'
<1>0. PICK f : f = EntryOf(op[p].on)
  OBVIOUS
<1> DEFINE n1 == [op[p] EXCEPT !.step = "index"]
           n == [n1 EXCEPT !.todo = IndexesOf(f)]
<1>1. /\ op' = [op EXCEPT ![p] = n] /\ IsOp(op[p])
      /\ op[p].step = "set" /\ op[p].kind = "fill" /\ op[p].on \in Targets
      /\ row' = row /\ index' = index
  BY <1>0 DEF IInv, Shape, Set, IsOp, At
<1>2. /\ DOMAIN n = DOMAIN op[p] /\ n.step = "index" /\ n.kind = "fill"
      /\ n.on = op[p].on /\ n.todo = IndexesOf(f)
      /\ n.wrote = op[p].wrote /\ n.missed = op[p].missed
  BY <1>1 DEF IsOp
<1> HIDE DEF n
<1>3. f \in Entries /\ Items(IndexesOf(f)) = TagsOf(f)
  BY <1>0, <1>1, Names DEF Items, TagsOf
<1>4. IndexesOf(f) \in Seq(Indexes) /\ IndexesOf(f) # <<>>
  <2>1. TagsOf(f) \subseteq Indexes
    BY <1>3, Names
  <2>2. CASE f = Profile
    <3>1. IndexesOf(f) = <<Scope(f), Profile>>
      BY <2>2 DEF IndexesOf
    <3>2. Scope(f) \in Indexes /\ Profile \in Indexes
      BY <2>2 DEF Scope, Indexes, Entries
    <3>3. QED BY <3>1, <3>2
  <2>3. CASE f # Profile
    <3>1. IndexesOf(f) = <<Scope(f), "donors", f>>
      BY <2>3 DEF IndexesOf
    <3>2. Scope(f) \in Indexes /\ "donors" \in Indexes /\ f \in Indexes
      BY <1>3, <2>3 DEF Scope, Indexes
    <3>3. QED BY <3>1, <3>2
  <2>4. QED BY <2>2, <2>3
<1>5. IsOp(n) /\ ~Tidies(n) /\ ~Tidies(op[p])
  BY <1>1, <1>2, <1>4 DEF IsOp, Tidies
<1>6. op'[p] = n /\ \A q \in Callers : q # p => op'[q] = op[q]
  BY <1>1 DEF IInv, Shape
<1>7. /\ cached' = [e \in Entries |-> cached'[e]]
      /\ \A e \in Entries : e # f => cached'[e] = cached[e]
      /\ DOMAIN cached'[f] = {"holds", "value", "suspect"}
      /\ cached'[f].holds = TRUE /\ cached'[f].value = op[p].value
      /\ cached'[f].suspect = (Outdated(op[p].value) \/ \E q \in Callers : Tidying(q))
  <2> DEFINE new == [holds |-> TRUE, value |-> op[p].value,
        suspect |-> Outdated(op[p].value) \/ \E q \in Callers : Tidying(q)]
  <2>1. cached' = [cached EXCEPT ![f] = new]
    BY <1>0 DEF Set
  <2>2. /\ DOMAIN new = {"holds", "value", "suspect"}
        /\ new.holds = TRUE /\ new.value = op[p].value
        /\ new.suspect = (Outdated(op[p].value) \/ \E q \in Callers : Tidying(q))
    OBVIOUS
  <2> HIDE DEF new
  <2>3. QED BY <1>3, <2>1, <2>2 DEF IInv, Shape, CachedOK
<1>8. /\ \A e \in Entries : e # f => Good(e)' = Good(e)
      /\ Good(f)' => /\ \A s \in DOMAIN op[p].value : op[p].value[s] = row[s]
                     /\ \A q \in Callers : ~Tidies(op[q])
  <2>1. \A q \in Callers : Tidying(q) = Tidies(op[q])
    BY DEF Tidying, Tidies
  <2>2. \A e \in Entries : e # f => Good(e)' = Good(e)
    BY <1>7 DEF Good
  <2>3. ASSUME Good(f)'
        PROVE  /\ \A s \in DOMAIN op[p].value : op[p].value[s] = row[s]
               /\ \A q \in Callers : ~Tidies(op[q])
    <3>1. ~(Outdated(op[p].value) \/ \E q \in Callers : Tidying(q))
      BY <1>7, <2>3 DEF Good
    <3>2. QED BY <2>1, <3>1 DEF Outdated
  <2>4. QED BY <2>2, <2>3
<1>9. Shape'
  <2>1. DOMAIN cached'[f].value = Covers(op[p].on)
    BY <1>1, <1>7 DEF IsOp
  <2>2. CachedOK'
    BY <1>0, <1>1, <1>7, <2>1 DEF CachedOK, IInv, Shape
  <2>3. QED BY <1>1, <1>5, <1>6, <2>2 DEF IInv, Shape
<1>10. \A q \in Callers, e \in Entries :
         /\ q # p => Indexing(q, e)' = Indexing(q, e)
                     /\ \A i : ToIndex(q, e, i)' = ToIndex(q, e, i)
         /\ ~Indexing(p, e) /\ Indexing(p, e)' = (e = f)
  BY <1>0, <1>1, <1>2, <1>6 DEF Indexing, ToIndex, At
<1>11. Reached'
  <2> SUFFICES ASSUME NEW e \in Entries, Good(e)', NEW i \in TagsOf(e)
               PROVE  e \in index'[i] \/ \E q \in Callers : ToIndex(q, e, i)'
    BY DEF Reached
  <2>1. CASE e = f
    BY <1>2, <1>3, <1>6, <1>10, <2>1 DEF ToIndex
  <2>2. CASE e # f
    <3>1. e \in index[i] \/ \E q \in Callers : ToIndex(q, e, i)
      BY <1>8, <2>2 DEF IInv, Reached
    <3>2. ~ToIndex(p, e, i)
      BY <1>10 DEF ToIndex
    <3>3. QED BY <1>1, <1>10, <3>1, <3>2
  <2>3. QED BY <2>1, <2>2
<1>12. NoneIndexed'
  <2> SUFFICES ASSUME NEW r \in Callers, Tidies(op'[r]), NEW e \in Entries, Good(e)',
                      NEW q \in Callers, Indexing(q, e)'
               PROVE  FALSE
    BY DEF NoneIndexed
  <2>1. r # p /\ Tidies(op[r])
    BY <1>5, <1>6
  <2>2. e # f /\ Good(e)
    BY <1>8, <2>1
  <2>3. q # p /\ Indexing(q, e)
    BY <1>10, <2>2
  <2>4. QED BY <2>1, <2>2, <2>3 DEF IInv, NoneIndexed
<1>13. Fresh'
  <2> SUFFICES ASSUME NEW e \in Entries, Good(e)', NEW s \in DOMAIN cached'[e].value
               PROVE  cached'[e].value[s] = row'[s]
                      \/ \E q \in Callers : Owes(op'[q], e, s)
    BY DEF Fresh
  <2>1. CASE e = f
    BY <1>1, <1>7, <1>8, <2>1
  <2>2. CASE e # f
    <3>1. Good(e) /\ cached'[e] = cached[e]
      BY <1>7, <1>8, <2>2
    <3>2. cached[e].value[s] = row[s] \/ \E q \in Callers : Owes(op[q], e, s)
      BY <3>1 DEF IInv, Fresh
    <3>3. ~Owes(op[p], e, s)
      BY <1>1 DEF Owes, LeftBy
    <3>4. QED BY <1>1, <1>6, <3>1, <3>2, <3>3
  <2>3. QED BY <2>1, <2>2
<1>14. Learnt'
  <2> SUFFICES ASSUME NEW q \in Callers PROVE Knows(op'[q], {e \in Entries : Good(e)'})
    BY DEF Learnt
  <2>1. CASE ~Tidies(op'[q])
    BY <2>1 DEF Knows, Tidies
  <2>2. CASE Tidies(op'[q])
    <3>1. q # p /\ Tidies(op[q]) /\ op'[q] = op[q]
      BY <1>5, <1>6, <2>2
    <3>2. {e \in Entries : Good(e)'} \subseteq {e \in Entries : Good(e)}
      BY <1>8, <3>1
    <3>3. Knows(op[q], {e \in Entries : Good(e)})
      BY DEF IInv, Learnt
    <3>4. QED BY <3>1, <3>2, <3>3, KnowsLess
  <2>3. QED BY <2>1, <2>2
<1>15. QED BY <1>9, <1>11, <1>12, <1>13, <1>14 DEF IInv

LEMMA NextInv ==
  ASSUME IInv, [Next]_vars
  PROVE  IInv'
<1>1. CASE UNCHANGED vars
  <2>1. CacheStep({}) /\ op' = op /\ row' = row /\ index' = index
    BY <1>1 DEF CacheStep, vars
  <2>2. QED BY <2>1, Loses
<1>2. CASE Expire
  <2>1. PICK e \in Entries : cached' = Without({e})
    BY <1>2 DEF Expire
  <2>2. CacheStep({e}) /\ op' = op /\ row' = row /\ index' = index
    BY <1>2, <2>1 DEF Expire, CacheStep
  <2>3. QED BY <2>2, Loses
<1>3. CASE Restart
  BY <1>3, RestartStep
<1>4. ASSUME NEW p \in Callers, Step(p)
      PROVE  IInv'
  BY <1>4, GetStep, SelectStep, SetStep, IndexStep, WriteStep, InvalidateStep,
     DeleteStep, UnlistStep, MembersStep, DropStep, UnlistFoundStep,
     DropIndexesStep, ExistsStep, PruneStep DEF Step
<1>5. ASSUME NEW p \in Callers,
             \/ BeginFill(p) \/ BeginUpdate(p) \/ BeginClear(p) \/ BeginStats(p)
             \/ Fault(p) \/ Crash(p)
      PROVE  IInv'
  BY <1>5, BeginSteps, BeginTidying, FaultStep, CrashStep
<1>6. QED BY <1>1, <1>2, <1>3, <1>4, <1>5 DEF Next

LEMMA AlwaysInv == Spec => []IInv
<1>1. IInv /\ [Next]_vars => IInv'
  BY NextInv
<1>2. QED BY InitInv, <1>1, PTL DEF Spec

-----------------------------------------------------------------------------
(* The properties *)

\* No order of fills, invalidations, clears, prunes, failures, crashes and
\* restarts, of any number of callers, leaves an entry that is not suspect
\* outside an index that a later clear or invalidate_tags takes it from.
THEOREM IndexesReach == Spec => []IndexesReachEntries
<1>1. IInv => IndexesReachEntries
  <2> SUFFICES ASSUME IInv, NEW e \in Entries, Good(e), e \notin BeingIndexed,
                      NEW i \in TagsOf(e)
               PROVE  e \in index[i]
    BY DEF IndexesReachEntries, Good, Range, TagsOf
  <2>1. e \in index[i] \/ \E q \in Callers : ToIndex(q, e, i)
    BY DEF IInv, Reached
  <2>2. \A q \in Callers : ~Indexing(q, e)
    BY DEF BeingIndexed, Indexing
  <2>3. QED BY <2>1, <2>2 DEF ToIndex
<1>2. QED BY <1>1, AlwaysInv, PTL

\* get_donor, list_donors and load_organization_profile return from the cache
\* what the tables hold, for any number of callers, addresses and spellings,
\* unless an update of that row has not returned yet or the entry is suspect.
THEOREM EntriesKeepUp == Spec => []CacheKeepsUp
<1>1. IInv => CacheKeepsUp
  <2> SUFFICES ASSUME IInv, NEW e \in Entries, Good(e),
                      NEW s \in DOMAIN cached[e].value
               PROVE  cached[e].value[s] = row[s] \/ Updating(s)
    BY DEF CacheKeepsUp, Good
  <2>1. cached[e].value[s] = row[s] \/ \E p \in Callers : Owes(op[p], e, s)
    BY DEF IInv, Fresh
  <2>2. \A p \in Callers : Owes(op[p], e, s) => op[p].kind = "update" /\ op[p].on = s
    BY DEF Owes, LeftBy
  <2>3. QED BY <2>1, <2>2 DEF Updating
<1>2. QED BY <1>1, AlwaysInv, PTL
=============================================================================
