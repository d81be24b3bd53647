--------------------------- MODULE OutreachProofs ---------------------------
(***************************************************************************)
(* The properties of DonorOutreach for any callers, donors, channels,      *)
(* throttle and bounds.  As in RetentionProofs, the invariant tells what   *)
(* each operation is doing (OpOK), which of them overlap (Apart) and what  *)
(* one that nothing overlaps may rely on (View); on these rest the consent *)
(* on file, the requests that stand and the spacing of the mail.           *)
(***************************************************************************)
EXTENDS DonorOutreach, TLAPS

-----------------------------------------------------------------------------
(* The types. *)

DonorRows == [known : BOOLEAN, optedOut : BOOLEAN, lastContact : Never..MaxTime]
Ops == [step : Steps \cup {"idle"}, kind : Kinds \cup {"erase"},
        donor : Donors, channel : Channels, optOut : BOOLEAN,
        known : BOOLEAN, lastContact : Never..MaxTime,
        at : 0..MaxTime, alone : BOOLEAN, wasOut : BOOLEAN]
Mails == [at : 0..MaxTime, alone : BOOLEAN]
Given == {"none", "granted", "withdrawn"}
Asked == {"unclear", "in", "out"}

LEMMA TypeIs ==
  TypeOK <=>
    /\ donors \in [Donors -> DonorRows]
    /\ consent \in [Donors -> [Channels -> Given]]
    /\ sentAt \in [Donors -> Seq(Mails)]
    /\ erased \subseteq Donors
    /\ op \in [Callers -> Ops]
    /\ now \in 0..MaxTime
    /\ granted \subseteq Donors \X Channels
    /\ request \in [Donors -> [Channels -> Asked]]
BY DEF TypeOK, DonorRows, Ops, Mails, Given, Asked

LEMMA Constant ==
  /\ Week \in Nat \ {0} /\ MaxTime \in Nat /\ Never = -1 /\ Never \in Never..MaxTime
  /\ \A t \in 0..MaxTime : t \in Never..MaxTime
BY OutreachAssumption DEF OutreachAssumption, Never

-----------------------------------------------------------------------------
(* The operations. *)

\* The steps of each kind of operation.
OpOK(n) ==
  /\ n \in Ops
  /\ n.step = "idle" => n = NoOp
  /\ n.kind = "edit" => n.step \in {"idle", "upsert"}
  /\ n.kind = "consent" => n.step \in {"upsert", "insert"}
  /\ n.kind = "optOut" => n.step \in {"select", "flag", "insert", "seal"}
  /\ n.kind = "restore" => n.step \in {"select", "flag", "upsert", "insert", "seal"}
  /\ n.kind \in {"send", "preview"} =>
       n.step \in {"upsertFirst", "find", "create", "check", "upsert", "insert",
                   "mail", "log"}
  /\ n.kind = "erase" => n.step = "erase"
  /\ n.kind = "optOut" => n.optOut
  /\ n.kind \notin {"edit", "optOut"} => ~n.optOut

Overlap(m, n) == m.step # "idle" /\ n.step # "idle" /\ m.donor = n.donor
Apart == \A p, q \in Callers : p # q /\ Overlap(op[p], op[q]) => ~op[p].alone

Sending(n) == n.kind \in {"send", "preview"}
Checked(n) == Sending(n) /\ n.step \in {"upsert", "insert", "mail", "log"}

\* What an operation that is alone has read or written still holds.
Relies(n, row, status) ==
  n.alone =>
    /\ n.kind \in {"consent", "restore"} /\ n.step = "insert" =>
         row.known /\ ~row.optedOut
    /\ n.step = "seal" =>
         /\ n.optOut => status = "withdrawn"
         /\ ~n.optOut => status = "granted" /\ row.known
    /\ Sending(n) /\ n.step = "find" /\ n.known => row.known
    /\ Sending(n) /\ n.step = "check" =>
         row.known /\ n.lastContact = row.lastContact
    /\ Checked(n) =>
         row.known /\ (row.lastContact = Never \/ n.at - row.lastContact >= Week)

View(p) == Relies(op[p], donors[op[p].donor], consent[op[p].donor][op[p].channel])

Core ==
  /\ TypeOK
  /\ \A p \in Callers : OpOK(op[p]) /\ View(p)
  /\ Apart

LEMMA NoOpTyped == NoOp \in Ops /\ OpOK(NoOp) /\ NoOp.step = "idle"
<1>1. /\ (CHOOSE d \in Donors : TRUE) \in Donors
      /\ (CHOOSE c \in Channels : TRUE) \in Channels
  BY OutreachAssumption DEF OutreachAssumption
<1>2. NoOp \in Ops
  BY <1>1, Constant DEF NoOp, Ops, Steps, Kinds
<1>3. QED BY <1>2 DEF OpOK, NoOp

LEMMA NoOpRelies ==
  ASSUME NEW row, NEW status PROVE Relies(NoOp, row, status)
BY DEF Relies, NoOp, Sending, Checked

-----------------------------------------------------------------------------
(* The steps of an operation. *)

Continues(m, n) ==
  /\ n.kind = m.kind /\ n.donor = m.donor /\ n.channel = m.channel
  /\ n.alone = m.alone /\ n.optOut = m.optOut /\ n.step # "idle"

Moves(p) ==
  \E n : /\ op' = [op EXCEPT ![p] = n]
         /\ OpOK(n)
         /\ n = NoOp \/ Continues(op[p], n)
         /\ Relies(n, donors'[n.donor], consent'[n.donor][n.channel])

LEMMA EndMoves ==
  ASSUME Core, NEW p \in Callers, Finish(p) PROVE Moves(p)
BY NoOpTyped, NoOpRelies DEF Moves, Finish

LEMMA GotoMoves ==
  ASSUME Core, NEW p \in Callers, NEW x \in Steps, Goto(p, x),
         NEW n, n = [op[p] EXCEPT !.step = x], OpOK(n),
         Relies(n, donors'[op[p].donor], consent'[op[p].donor][op[p].channel])
  PROVE  Moves(p)
<1>1. op[p] \in Ops /\ op \in [Callers -> Ops]
  BY TypeIs DEF Core
<1>2. op' = [op EXCEPT ![p] = n]
  BY <1>1 DEF Goto
<1>3. /\ n.kind = op[p].kind /\ n.donor = op[p].donor /\ n.channel = op[p].channel
      /\ n.alone = op[p].alone /\ n.optOut = op[p].optOut /\ n.step = x
  BY <1>1 DEF Ops
<1>4. x # "idle"
  BY DEF Steps
<1>5. QED BY <1>2, <1>3, <1>4 DEF Moves, Continues

\* The operation with another step.
LEMMA GotoFields ==
  ASSUME NEW m \in Ops, NEW x \in Steps
  PROVE  LET n == [m EXCEPT !.step = x] IN
         /\ n \in Ops /\ n.step = x /\ n.kind = m.kind /\ n.donor = m.donor
         /\ n.channel = m.channel /\ n.optOut = m.optOut /\ n.known = m.known
         /\ n.lastContact = m.lastContact /\ n.at = m.at /\ n.alone = m.alone
BY DEF Ops

LEMMA Own ==
  ASSUME Core, NEW p \in Callers
  PROVE  /\ op \in [Callers -> Ops] /\ op[p] \in Ops /\ OpOK(op[p]) /\ View(p)
         /\ op[p].donor \in Donors /\ op[p].channel \in Channels
         /\ donors \in [Donors -> DonorRows] /\ Row(p) \in DonorRows
         /\ consent \in [Donors -> [Channels -> Given]]
BY TypeIs DEF Core, Ops, Row

\* What the helpers of the actions do to a row.
LEMMA UpsertedFields ==
  ASSUME NEW row \in DonorRows, NEW b \in BOOLEAN
  PROVE  LET r == Upserted(row, b) IN
         r \in DonorRows /\ r.known /\ r.optedOut = b /\ r.lastContact = row.lastContact
<1> DEFINE r1 == [row EXCEPT !.known = TRUE]
           r == [r1 EXCEPT !.optedOut = b]
<1>1. Upserted(row, b) = r
  BY DEF Upserted, DonorRows
<1>2. r1 \in DonorRows /\ r1.known /\ r1.lastContact = row.lastContact
  BY DEF DonorRows
<1> HIDE DEF r1
<1>3. r \in DonorRows /\ r.known /\ r.optedOut = b /\ r.lastContact = row.lastContact
  BY <1>2 DEF DonorRows
<1> HIDE DEF r
<1>4. QED BY <1>1, <1>3

LEMMA FlaggedFields ==
  ASSUME NEW row \in DonorRows, NEW b \in BOOLEAN
  PROVE  LET r == Flagged(row, b) IN
         /\ r \in DonorRows /\ r.known = row.known /\ r.lastContact = row.lastContact
         /\ r.optedOut = IF row.known THEN b ELSE row.optedOut
BY DEF Flagged, DonorRows

LEMMA ContactedFields ==
  ASSUME NEW row \in DonorRows, NEW at \in 0..MaxTime
  PROVE  LET r == Contacted(row, at) IN
         /\ r \in DonorRows /\ r.known = row.known /\ r.optedOut = row.optedOut
         /\ r.lastContact = IF row.known THEN at ELSE row.lastContact
BY Constant DEF Contacted, DonorRows

-----------------------------------------------------------------------------
(* What each action leaves behind. *)

LEMMA UpsertMoves ==
  ASSUME Core, NEW p \in Callers, Upsert(p) PROVE Moves(p)
<1> DEFINE m == op[p]
           n == [m EXCEPT !.step = "insert"]
           row == Upserted(Row(p), m.optOut)
<1>1. /\ m \in Ops /\ OpOK(m) /\ View(p) /\ m.donor \in Donors
      /\ donors \in [Donors -> DonorRows] /\ Row(p) \in DonorRows
  BY Own
<1>2. m.step = "upsert" /\ donors'[m.donor] = row /\ consent' = consent
  BY <1>1 DEF Upsert, At, Row
<1>3. m.optOut \in BOOLEAN
  BY <1>1 DEF Ops
<1>4. row.known /\ row.optedOut = m.optOut /\ row.lastContact = Row(p).lastContact
  BY <1>1, <1>3, UpsertedFields
<1>5. CASE m.kind = "edit"
  BY <1>5, EndMoves DEF Upsert
<1>6. CASE m.kind # "edit"
  <2>1. Goto(p, "insert") /\ "insert" \in Steps
    BY <1>6 DEF Upsert, Steps
  <2>2. /\ n \in Ops /\ n.step = "insert" /\ n.kind = m.kind /\ n.donor = m.donor
        /\ n.channel = m.channel /\ n.optOut = m.optOut /\ n.known = m.known
        /\ n.lastContact = m.lastContact /\ n.at = m.at /\ n.alone = m.alone
    BY <1>1, <2>1, GotoFields
  <2> HIDE DEF n
  <2>3. OpOK(n)
    BY <1>1, <1>2, <1>6, <2>2 DEF OpOK
  <2>4. m.kind \in {"consent", "restore"} => ~m.optOut
    BY <1>1 DEF OpOK
  <2>5. Relies(m, Row(p), consent[m.donor][m.channel])
    BY <1>1 DEF View, Row
  <2>6. Relies(n, row, consent'[m.donor][m.channel])
    <3> HIDE DEF row
    <3>1. QED BY <1>2, <1>4, <2>2, <2>4, <2>5 DEF Relies, Checked, Sending
  <2>7. QED BY <1>2, <2>1, <2>3, <2>6, GotoMoves DEF n
<1>7. QED BY <1>5, <1>6

LEMMA InsertMoves ==
  ASSUME Core, NEW p \in Callers, Insert(p) PROVE Moves(p)
<1> DEFINE m == op[p]
           x == CASE m.kind \in {"optOut", "restore"} -> "seal"
                  [] m.kind = "send" -> "mail"
                  [] OTHER -> "log"
           n == [m EXCEPT !.step = x]
           status == IF m.kind = "optOut" THEN "withdrawn" ELSE "granted"
<1>1. /\ m \in Ops /\ OpOK(m) /\ View(p) /\ m.donor \in Donors /\ m.channel \in Channels
      /\ consent \in [Donors -> [Channels -> Given]]
  BY Own
<1>2. /\ m.step = "insert" /\ Row(p).known /\ donors' = donors
      /\ consent'[m.donor][m.channel] = status
  BY <1>1 DEF Insert, At
<1>3. m.kind \in {"consent", "optOut", "restore", "send", "preview"}
  BY <1>1, <1>2 DEF OpOK, Ops, Kinds
<1>4. CASE m.kind = "consent"
  BY <1>4, EndMoves DEF Insert
<1>5. CASE m.kind # "consent"
  <2>1. /\ Goto(p, x) /\ x \in Steps /\ x \in {"seal", "mail", "log"}
        /\ x = "seal" <=> m.kind \in {"optOut", "restore"}
    BY <1>3, <1>5 DEF Insert, Steps
  <2> HIDE DEF x
  <2>2. /\ n \in Ops /\ n.step = x /\ n.kind = m.kind /\ n.donor = m.donor
        /\ n.channel = m.channel /\ n.optOut = m.optOut /\ n.known = m.known
        /\ n.lastContact = m.lastContact /\ n.at = m.at /\ n.alone = m.alone
    BY <1>1, <2>1, GotoFields
  <2> HIDE DEF n
  <2>3. OpOK(n)
    BY <1>1, <1>3, <1>5, <2>1, <2>2 DEF OpOK
  <2>4. n.optOut <=> n.kind = "optOut"
    BY <1>3, <2>2, <2>3 DEF OpOK
  <2>5. Relies(m, Row(p), consent[m.donor][m.channel])
    BY <1>1 DEF View, Row
  <2>6. Relies(n, Row(p), status)
    <3> HIDE DEF status
    <3>1. /\ n.optOut => status = "withdrawn"
          /\ ~n.optOut => status = "granted"
      BY <2>2, <2>4 DEF status
    <3>2. QED BY <1>2, <2>1, <2>2, <2>5, <3>1 DEF Relies, Checked, Sending
  <2>7. QED BY <1>2, <2>1, <2>3, <2>6, GotoMoves DEF n, Row
<1>6. QED BY <1>4, <1>5

LEMMA SelectMoves ==
  ASSUME Core, NEW p \in Callers, Select(p) PROVE Moves(p)
<1> DEFINE m == op[p]
           k == [m EXCEPT !.known = Row(p).known]
           n == [k EXCEPT !.step = "flag"]
<1>1. /\ m \in Ops /\ OpOK(m) /\ Row(p) \in DonorRows
  BY Own
<1>2. m.step = "select" /\ m.kind \in {"optOut", "restore"}
  BY <1>1 DEF Select, At, OpOK, Ops, Kinds
<1>3. op' = [op EXCEPT ![p] = n]
  BY <1>1 DEF Select, Ops
<1>4. /\ k \in Ops /\ k.step = m.step /\ k.kind = m.kind /\ k.donor = m.donor
      /\ k.channel = m.channel /\ k.optOut = m.optOut /\ k.alone = m.alone
  BY <1>1 DEF Ops, DonorRows
<1> HIDE DEF k
<1>5. /\ n \in Ops /\ n.step = "flag" /\ n.kind = m.kind /\ n.donor = m.donor
      /\ n.channel = m.channel /\ n.optOut = m.optOut /\ n.alone = m.alone
  BY <1>4, GotoFields DEF Steps
<1> HIDE DEF n
<1>6. OpOK(n) /\ Continues(m, n)
  BY <1>1, <1>2, <1>5 DEF OpOK, Continues
<1>7. Relies(n, donors'[n.donor], consent'[n.donor][n.channel])
  BY <1>2, <1>5 DEF Relies, Checked, Sending
<1>8. QED BY <1>3, <1>6, <1>7 DEF Moves

LEMMA FlagMoves ==
  ASSUME Core, NEW p \in Callers, Flag(p) PROVE Moves(p)
<1> DEFINE m == op[p]
           x == IF m.optOut THEN "insert" ELSE "upsert"
           n == [m EXCEPT !.step = x]
<1>1. /\ m \in Ops /\ OpOK(m) /\ View(p) /\ m.donor \in Donors
      /\ donors \in [Donors -> DonorRows] /\ Row(p) \in DonorRows
  BY Own
<1>2. /\ m.step = "flag" /\ m.kind \in {"optOut", "restore"}
      /\ m.kind = "restore" => x = "upsert"
      /\ m.kind = "optOut" => x = "insert"
  BY <1>1 DEF Flag, At, OpOK, Ops, Kinds
<1>3. Goto(p, x) /\ x \in Steps
  BY <1>1 DEF Flag, Steps
<1> HIDE DEF x
<1>4. /\ n \in Ops /\ n.step = x /\ n.kind = m.kind /\ n.donor = m.donor
      /\ n.channel = m.channel /\ n.optOut = m.optOut /\ n.known = m.known
      /\ n.lastContact = m.lastContact /\ n.at = m.at /\ n.alone = m.alone
  BY <1>1, <1>3, GotoFields
<1> HIDE DEF n
<1>5. OpOK(n)
  BY <1>1, <1>2, <1>4 DEF OpOK
<1>6. Relies(n, donors'[m.donor], consent'[m.donor][m.channel])
  BY <1>2, <1>4 DEF Relies, Checked, Sending
<1>7. QED BY <1>3, <1>5, <1>6, GotoMoves DEF n

LEMMA UpsertFirstMoves ==
  ASSUME Core, NEW p \in Callers, UpsertFirst(p) PROVE Moves(p)
<1> DEFINE m == op[p]
           n == [m EXCEPT !.step = "find"]
           row == Upserted(Row(p), FALSE)
<1>1. /\ m \in Ops /\ OpOK(m) /\ m.donor \in Donors
      /\ donors \in [Donors -> DonorRows] /\ Row(p) \in DonorRows
  BY Own
<1>2. /\ m.step = "upsertFirst" /\ Goto(p, "find") /\ "find" \in Steps
      /\ donors'[m.donor] = row
  BY <1>1 DEF UpsertFirst, At, Steps, Row
<1>3. row.known
  BY <1>1, UpsertedFields
<1> HIDE DEF row
<1>4. /\ n \in Ops /\ n.step = "find" /\ n.kind = m.kind /\ n.donor = m.donor
      /\ n.channel = m.channel /\ n.optOut = m.optOut /\ n.known = m.known
      /\ n.lastContact = m.lastContact /\ n.at = m.at /\ n.alone = m.alone
  BY <1>1, <1>2, GotoFields
<1> HIDE DEF n
<1>5. OpOK(n)
  BY <1>1, <1>2, <1>4 DEF OpOK
<1>6. Relies(n, row, consent'[m.donor][m.channel])
  BY <1>3, <1>4 DEF Relies, Checked
<1>7. QED BY <1>2, <1>5, <1>6, GotoMoves DEF n

LEMMA FindMoves ==
  ASSUME Core, NEW p \in Callers, Find(p) PROVE Moves(p)
<1> DEFINE m == op[p]
<1>1. /\ m \in Ops /\ OpOK(m) /\ View(p) /\ m.donor \in Donors
      /\ donors \in [Donors -> DonorRows] /\ Row(p) \in DonorRows
  BY Own
<1>2. /\ m.step = "find" /\ Sending(m) /\ donors' = donors /\ consent' = consent
  BY <1>1 DEF Find, At, OpOK, Ops, Kinds, Sending
<1>3. Relies(m, Row(p), consent[m.donor][m.channel])
  BY <1>1 DEF View, Row
<1>4. CASE ~Row(p).known /\ ~m.known
  <2> DEFINE n == [m EXCEPT !.step = "create"]
  <2>1. Goto(p, "create") /\ "create" \in Steps
    BY <1>4 DEF Find, Steps
  <2>2. /\ n \in Ops /\ n.step = "create" /\ n.kind = m.kind /\ n.donor = m.donor
        /\ n.channel = m.channel /\ n.optOut = m.optOut /\ n.known = m.known
        /\ n.lastContact = m.lastContact /\ n.at = m.at /\ n.alone = m.alone
    BY <1>1, <2>1, GotoFields
  <2> HIDE DEF n
  <2>3. OpOK(n)
    BY <1>1, <1>2, <2>2 DEF OpOK, Sending
  <2>4. Relies(n, Row(p), consent[m.donor][m.channel])
    BY <2>2 DEF Relies, Checked
  <2>5. QED BY <1>2, <2>1, <2>3, <2>4, GotoMoves DEF n, Row
<1>5. CASE ~(~Row(p).known /\ ~m.known) /\ Row(p).optedOut
  BY <1>5, EndMoves DEF Find
<1>6. CASE ~(~Row(p).known /\ ~m.known) /\ ~Row(p).optedOut
  <2> DEFINE k == [m EXCEPT !.lastContact = Row(p).lastContact]
             n == [k EXCEPT !.step = "check"]
  <2>1. op' = [op EXCEPT ![p] = n]
    BY <1>1, <1>6 DEF Find, Ops
  <2>2. Row(p).lastContact \in Never..MaxTime
    BY <1>1 DEF DonorRows
  <2>3. /\ k \in Ops /\ k.step = m.step /\ k.kind = m.kind /\ k.donor = m.donor
        /\ k.channel = m.channel /\ k.optOut = m.optOut /\ k.alone = m.alone
        /\ k.lastContact = Row(p).lastContact
    BY <1>1, <2>2 DEF Ops
  <2> HIDE DEF k
  <2>4. /\ n \in Ops /\ n.step = "check" /\ n.kind = m.kind /\ n.donor = m.donor
        /\ n.channel = m.channel /\ n.optOut = m.optOut /\ n.alone = m.alone
        /\ n.lastContact = Row(p).lastContact
    BY <2>3, GotoFields DEF Steps
  <2> HIDE DEF n
  <2>5. OpOK(n) /\ Continues(m, n)
    BY <1>1, <1>2, <2>4 DEF OpOK, Continues, Sending
  <2>6. Relies(n, Row(p), consent[m.donor][m.channel])
    BY <1>2, <1>3, <1>6, <2>4 DEF Relies, Checked, Sending
  <2>7. QED BY <1>2, <2>1, <2>4, <2>5, <2>6 DEF Moves, Row
<1>7. QED BY <1>4, <1>5, <1>6

LEMMA CreateMoves ==
  ASSUME Core, NEW p \in Callers, Create(p) PROVE Moves(p)
<1> DEFINE m == op[p]
           k == [m EXCEPT !.known = TRUE]
           n == [k EXCEPT !.step = "find"]
           row == Upserted(Row(p), FALSE)
<1>1. /\ m \in Ops /\ OpOK(m) /\ m.donor \in Donors
      /\ donors \in [Donors -> DonorRows] /\ Row(p) \in DonorRows
  BY Own
<1>2. /\ m.step = "create" /\ Sending(m) /\ donors'[m.donor] = row
  BY <1>1 DEF Create, At, OpOK, Ops, Kinds, Sending, Row
<1>3. row.known
  BY <1>1, UpsertedFields
<1> HIDE DEF row
<1>4. op' = [op EXCEPT ![p] = n]
  BY <1>1 DEF Create, Ops
<1>5. /\ k \in Ops /\ k.step = m.step /\ k.kind = m.kind /\ k.donor = m.donor
      /\ k.channel = m.channel /\ k.optOut = m.optOut /\ k.alone = m.alone
  BY <1>1 DEF Ops
<1> HIDE DEF k
<1>6. /\ n \in Ops /\ n.step = "find" /\ n.kind = m.kind /\ n.donor = m.donor
      /\ n.channel = m.channel /\ n.optOut = m.optOut /\ n.alone = m.alone
  BY <1>5, GotoFields DEF Steps
<1> HIDE DEF n
<1>7. OpOK(n) /\ Continues(m, n)
  BY <1>1, <1>2, <1>6 DEF OpOK, Continues, Sending
<1>8. Relies(n, row, consent'[n.donor][n.channel])
  BY <1>3, <1>6 DEF Relies, Checked
<1>9. QED BY <1>2, <1>4, <1>6, <1>7, <1>8 DEF Moves

LEMMA CheckMoves ==
  ASSUME Core, NEW p \in Callers, Check(p) PROVE Moves(p)
<1> DEFINE m == op[p]
           refused == \/ consent[m.donor][m.channel] = "withdrawn"
                      \/ Throttled(m.lastContact)
           k == [m EXCEPT !.at = now]
           n == [k EXCEPT !.step = AfterChecks(p)]
<1>1. /\ m \in Ops /\ OpOK(m) /\ View(p) /\ m.donor \in Donors
      /\ donors \in [Donors -> DonorRows] /\ Row(p) \in DonorRows
      /\ now \in 0..MaxTime
  BY Own, TypeIs DEF Core
<1>2. /\ m.step = "check" /\ Sending(m) /\ donors' = donors /\ consent' = consent
  BY <1>1 DEF Check, At, OpOK, Ops, Kinds, Sending
<1>3. Relies(m, Row(p), consent[m.donor][m.channel])
  BY <1>1 DEF View, Row
<1>4. CASE refused
  BY <1>4, EndMoves DEF Check
<1>5. CASE ~refused
  <2>1. op' = [op EXCEPT ![p] = n]
    BY <1>1, <1>5 DEF Check, Ops
  <2>2. /\ k \in Ops /\ k.step = m.step /\ k.kind = m.kind /\ k.donor = m.donor
        /\ k.channel = m.channel /\ k.optOut = m.optOut /\ k.alone = m.alone
        /\ k.at = now
    BY <1>1 DEF Ops
  <2> HIDE DEF k
  <2>3. AfterChecks(p) \in {"upsert", "mail", "log"} /\ AfterChecks(p) \in Steps
    BY DEF AfterChecks, Steps
  <2>4. /\ n \in Ops /\ n.step = AfterChecks(p) /\ n.kind = m.kind /\ n.donor = m.donor
        /\ n.channel = m.channel /\ n.optOut = m.optOut /\ n.alone = m.alone
        /\ n.at = now
    BY <2>2, <2>3, GotoFields
  <2> HIDE DEF n
  <2>5. OpOK(n) /\ Continues(m, n)
    BY <1>1, <1>2, <2>3, <2>4 DEF OpOK, Continues, Sending
  <2>6. m.lastContact = Never \/ now - m.lastContact >= Week
    <3>1. m.lastContact \in Never..MaxTime
      BY <1>1 DEF Ops
    <3>2. QED BY <1>1, <1>5, <3>1, Constant DEF Throttled
  <2>7. Relies(n, Row(p), consent[m.donor][m.channel])
    BY <1>2, <1>3, <2>3, <2>4, <2>6 DEF Relies, Checked, Sending
  <2>8. QED BY <1>2, <2>1, <2>4, <2>5, <2>7 DEF Moves, Row
<1>6. QED BY <1>4, <1>5

LEMMA MailMoves ==
  ASSUME Core, NEW p \in Callers, Mail(p) PROVE Moves(p)
<1> DEFINE m == op[p]
           n == [m EXCEPT !.step = "log"]
<1>1. m \in Ops /\ OpOK(m) /\ View(p)
  BY Own
<1>2. /\ m.step = "mail" /\ Sending(m) /\ donors' = donors /\ consent' = consent
      /\ Goto(p, "log") /\ "log" \in Steps
  BY <1>1 DEF Mail, At, OpOK, Ops, Kinds, Sending, Steps
<1>3. /\ n \in Ops /\ n.step = "log" /\ n.kind = m.kind /\ n.donor = m.donor
      /\ n.channel = m.channel /\ n.optOut = m.optOut /\ n.known = m.known
      /\ n.lastContact = m.lastContact /\ n.at = m.at /\ n.alone = m.alone
  BY <1>1, <1>2, GotoFields
<1> HIDE DEF n
<1>4. OpOK(n)
  BY <1>1, <1>2, <1>3 DEF OpOK, Sending
<1>5. Relies(m, Row(p), consent[m.donor][m.channel])
  BY <1>1 DEF View, Row
<1>6. Relies(n, Row(p), consent[m.donor][m.channel])
  BY <1>2, <1>3, <1>5 DEF Relies, Checked, Sending
<1>7. QED BY <1>2, <1>4, <1>6, GotoMoves DEF n, Row

LEMMA StepMoves ==
  ASSUME Core, NEW p \in Callers, Step(p)
  PROVE  Moves(p) /\ op[p].step # "idle"
<1>1. CASE InsertFails(p) \/ Seal(p) \/ Erase(p) \/ Log(p)
  BY <1>1, EndMoves DEF InsertFails, Seal, Erase, Log, At
<1>2. CASE ~(InsertFails(p) \/ Seal(p) \/ Erase(p) \/ Log(p))
  <2>1. Moves(p)
    BY <1>2, UpsertMoves, InsertMoves, SelectMoves, FlagMoves, UpsertFirstMoves,
       FindMoves, CreateMoves, CheckMoves, MailMoves DEF Step
  <2>2. op[p].step # "idle"
    BY <1>2 DEF Step, At, Upsert, Insert, Select, Flag, UpsertFirst, Find, Create,
       Check, Mail
  <2>3. QED BY <2>1, <2>2
<1>3. QED BY <1>1, <1>2

-----------------------------------------------------------------------------
(* An operation touches its own donor only, and keeps the types. *)

OwnDonor(p) ==
  \A e \in Donors : e # op[p].donor =>
    /\ donors'[e] = donors[e] /\ consent'[e] = consent[e]
    /\ sentAt'[e] = sentAt[e] /\ request'[e] = request[e]
    /\ e \in erased' <=> e \in erased
    /\ \A c \in Channels : <<e, c>> \in granted' <=> <<e, c>> \in granted

LEMMA InsertKinds ==
  ASSUME Core, NEW p \in Callers, At(p, "insert")
  PROVE  op[p].kind \in {"consent", "optOut", "restore", "send", "preview"}
BY Own DEF At, OpOK, Ops, Kinds

LEMMA StepOwnDonor ==
  ASSUME Core, NEW p \in Callers, Step(p)
  PROVE  OwnDonor(p) /\ now' = now
<1>1. /\ op[p].donor \in Donors /\ donors \in [Donors -> DonorRows]
      /\ consent \in [Donors -> [Channels -> Given]]
      /\ sentAt \in [Donors -> Seq(Mails)]
      /\ request \in [Donors -> [Channels -> Asked]]
  BY Own, TypeIs DEF Core
<1>2. CASE Upsert(p) \/ UpsertFirst(p) \/ Create(p) \/ Flag(p)
  BY <1>1, <1>2 DEF Upsert, UpsertFirst, Create, Flag, Rest, OwnDonor
<1>3. CASE Select(p) \/ Find(p) \/ Check(p) \/ Mail(p) \/ InsertFails(p)
  BY <1>3 DEF Select, Find, Check, Mail, InsertFails, Rest, OwnDonor
<1>4. CASE Seal(p)
  BY <1>1, <1>4 DEF Seal, Settled, Rest, OwnDonor
<1>5. CASE Log(p)
  BY <1>1, <1>5 DEF Log, OwnDonor
<1>6. CASE Erase(p)
  BY <1>1, <1>6 DEF Erase, OwnDonor
<1>7. CASE Insert(p)
  <2>1. request' = request \/ request' = Settled(p, "in")
    <3>1. op[p].kind \in {"consent", "optOut", "restore", "send", "preview"}
      BY <1>7, InsertKinds DEF Insert
    <3>2. QED BY <1>7, <3>1 DEF Insert
  <2>2. QED BY <1>1, <1>7, <2>1 DEF Insert, Settled, Rest, OwnDonor
<1>8. QED BY <1>2, <1>3, <1>4, <1>5, <1>6, <1>7 DEF Step

LEMMA StepRequest ==
  ASSUME Core, NEW p \in Callers, Step(p)
  PROVE  \/ request' = request
         \/ \E asked \in Asked : request' = Settled(p, asked)
<1>1. CASE Seal(p)
  BY <1>1 DEF Seal, Asked
<1>2. CASE Insert(p)
  BY <1>2, InsertKinds DEF Insert, Asked
<1>3. CASE ~Seal(p) /\ ~Insert(p)
  BY <1>3 DEF Step, Upsert, UpsertFirst, Create, Flag, Select, Find, Check, Mail,
     InsertFails, Log, Erase
<1>4. QED BY <1>1, <1>2, <1>3

LEMMA StepDonors ==
  ASSUME Core, NEW p \in Callers, Step(p)
  PROVE  donors' \in [Donors -> DonorRows]
<1>1. /\ op[p] \in Ops /\ op[p].donor \in Donors /\ donors \in [Donors -> DonorRows]
      /\ Row(p) \in DonorRows
  BY Own
<1>2. op[p].optOut \in BOOLEAN /\ op[p].at \in 0..MaxTime
  BY <1>1 DEF Ops
<1>3. Absent \in DonorRows
  BY Constant DEF Absent, DonorRows
<1>4. /\ \A b \in BOOLEAN : Upserted(Row(p), b) \in DonorRows
      /\ \A b \in BOOLEAN : Flagged(Row(p), b) \in DonorRows
      /\ Contacted(Row(p), op[p].at) \in DonorRows
  BY <1>1, <1>2, UpsertedFields, FlaggedFields, ContactedFields
<1>5. \/ donors' = donors
      \/ \E r \in DonorRows : donors' = [donors EXCEPT ![op[p].donor] = r]
  <2>1. CASE Upsert(p)
    BY <1>1, <1>2, <1>4, <2>1 DEF Upsert, Row
  <2>2. CASE UpsertFirst(p) \/ Create(p)
    BY <1>1, <1>2, <1>4, <2>2 DEF UpsertFirst, Create, Row
  <2>3. CASE Flag(p)
    BY <1>1, <1>2, <1>4, <2>3 DEF Flag, Row
  <2>4. CASE Seal(p)
    BY <1>1, <1>2, <1>4, <2>4 DEF Seal, Row
  <2>5. CASE Log(p)
    BY <1>1, <1>2, <1>4, <2>5 DEF Log, Row
  <2>6. CASE Erase(p)
    BY <1>1, <1>3, <2>6 DEF Erase
  <2>7. CASE Select(p) \/ Find(p) \/ Check(p) \/ Mail(p) \/ InsertFails(p) \/ Insert(p)
    BY <2>7 DEF Select, Find, Check, Mail, InsertFails, Insert
  <2>8. QED BY <2>1, <2>2, <2>3, <2>4, <2>5, <2>6, <2>7 DEF Step
<1>6. QED BY <1>1, <1>5

LEMMA StepConsent ==
  ASSUME Core, NEW p \in Callers, Step(p)
  PROVE  /\ consent' \in [Donors -> [Channels -> Given]]
         /\ granted' \subseteq Donors \X Channels
<1>1. /\ op[p].donor \in Donors /\ op[p].channel \in Channels
      /\ consent \in [Donors -> [Channels -> Given]]
      /\ granted \subseteq Donors \X Channels
  BY Own, TypeIs DEF Core
<1>2. CASE Insert(p)
  BY <1>1, <1>2 DEF Insert, Given
<1>3. CASE Erase(p)
  BY <1>1, <1>3 DEF Erase, Given
<1>4. CASE ~Insert(p) /\ ~Erase(p)
  BY <1>1, <1>4 DEF Step, Upsert, UpsertFirst, Create, Flag, Select, Find, Check,
     Mail, InsertFails, Log, Seal
<1>5. QED BY <1>2, <1>3, <1>4

LEMMA StepSent ==
  ASSUME Core, NEW p \in Callers, Step(p)
  PROVE  sentAt' \in [Donors -> Seq(Mails)] /\ erased' \subseteq Donors
<1>1. /\ op[p] \in Ops /\ op[p].donor \in Donors
      /\ sentAt \in [Donors -> Seq(Mails)] /\ erased \subseteq Donors
  BY Own, TypeIs DEF Core
<1>2. CASE Log(p)
  <2>1. [at |-> op[p].at, alone |-> op[p].alone] \in Mails
    BY <1>1 DEF Mails, Ops
  <2>2. QED BY <1>1, <1>2, <2>1 DEF Log
<1>3. CASE Erase(p)
  <2>1. <<>> \in Seq(Mails)
    OBVIOUS
  <2>2. sentAt' = sentAt \/ sentAt' = [sentAt EXCEPT ![op[p].donor] = <<>>]
    BY <1>3 DEF Erase
  <2>3. erased' \subseteq Donors
    BY <1>1, <1>3 DEF Erase
  <2>4. QED BY <1>1, <2>1, <2>2, <2>3
<1>4. CASE ~Log(p) /\ ~Erase(p)
  BY <1>1, <1>4 DEF Step, Upsert, UpsertFirst, Create, Flag, Select, Find, Check,
     Mail, InsertFails, Insert, Seal, Rest
<1>5. QED BY <1>2, <1>3, <1>4

LEMMA StepTyped ==
  ASSUME Core, NEW p \in Callers, Step(p) PROVE TypeOK'
<1>1. /\ donors \in [Donors -> DonorRows] /\ op \in [Callers -> Ops]
      /\ request \in [Donors -> [Channels -> Asked]] /\ now \in 0..MaxTime
      /\ op[p].donor \in Donors /\ op[p].channel \in Channels
  BY Own, TypeIs DEF Core
<1>2. op' \in [Callers -> Ops]
  BY <1>1, StepMoves DEF Moves, OpOK
<1>3. request' \in [Donors -> [Channels -> Asked]]
  <2>1. CASE request' = request
    BY <1>1, <2>1
  <2>2. ASSUME NEW asked \in Asked, request' = Settled(p, asked)
        PROVE  request' \in [Donors -> [Channels -> Asked]]
    <3> DEFINE v == IF op[p].alone THEN asked ELSE "unclear"
    <3>1. v \in Asked
      BY DEF Asked
    <3>2. request' = [request EXCEPT ![op[p].donor][op[p].channel] = v]
      BY <2>2 DEF Settled
    <3> HIDE DEF v
    <3>3. QED BY <1>1, <3>1, <3>2
  <2>3. QED BY <2>1, <2>2, StepRequest
<1>4. /\ donors' \in [Donors -> DonorRows]
      /\ consent' \in [Donors -> [Channels -> Given]]
      /\ sentAt' \in [Donors -> Seq(Mails)]
      /\ erased' \subseteq Donors
      /\ now' \in 0..MaxTime
      /\ granted' \subseteq Donors \X Channels
  BY <1>1, StepDonors, StepConsent, StepSent, StepOwnDonor
<1>5. QED BY <1>2, <1>3, <1>4, TypeIs
         DEF TypeOK, DonorRows, Ops, Mails, Given, Asked

-----------------------------------------------------------------------------
(* Core is inductive. *)

LEMMA MoveKeepsCore ==
  ASSUME Core, TypeOK', NEW p \in Callers, NEW n,
         op' = [op EXCEPT ![p] = n], OpOK(n),
         \/ n = NoOp
         \/ /\ n.donor = op[p].donor /\ n.alone = op[p].alone /\ op[p].step # "idle",
         Relies(n, donors'[n.donor], consent'[n.donor][n.channel]),
         \A q \in Callers :
           q # p /\ op[q].step # "idle" /\ op[q].alone =>
             /\ donors'[op[q].donor] = donors[op[q].donor]
             /\ consent'[op[q].donor] = consent[op[q].donor]
  PROVE  Core'
<1>1. op \in [Callers -> Ops] /\ Apart
      /\ \A q \in Callers : OpOK(op[q]) /\ View(q)
  BY TypeIs DEF Core
<1>2. op'[p] = n /\ \A q \in Callers : q # p => op'[q] = op[q]
  BY <1>1
<1>3. ASSUME NEW q \in Callers
      PROVE  (OpOK(op[q]) /\ View(q))'
  <2>1. CASE q = p
    BY <1>2, <2>1 DEF View, OpOK
  <2>2. CASE q # p /\ (op[q].step = "idle" \/ ~op[q].alone)
    <3>1. OpOK(op'[q])
      BY <1>1, <1>2, <2>2
    <3>2. Relies(op'[q], donors'[op'[q].donor], consent'[op'[q].donor][op'[q].channel])
      BY <1>1, <1>2, <2>2, NoOpRelies DEF Relies, OpOK
    <3>3. QED BY <3>1, <3>2 DEF View, OpOK
  <2>3. CASE q # p /\ op[q].step # "idle" /\ op[q].alone
    BY <1>1, <1>2, <2>3 DEF View, OpOK
  <2>4. QED BY <2>1, <2>2, <2>3
<1>4. Apart'
  <2>1. NoOp.step = "idle"
    BY NoOpTyped
  <2>2. QED BY <1>1, <1>2, <2>1 DEF Apart, Overlap
<1>5. QED BY <1>3, <1>4 DEF Core

LEMMA StepKeepsCore ==
  ASSUME Core, NEW p \in Callers, Step(p) PROVE Core'
<1>1. PICK n : /\ op' = [op EXCEPT ![p] = n]
               /\ OpOK(n)
               /\ n = NoOp \/ Continues(op[p], n)
               /\ Relies(n, donors'[n.donor], consent'[n.donor][n.channel])
  BY StepMoves DEF Moves
<1>2. OwnDonor(p) /\ op[p].step # "idle"
  BY StepOwnDonor, StepMoves
<1>3. ASSUME NEW q \in Callers, q # p, op[q].step # "idle", op[q].alone
      PROVE  /\ donors'[op[q].donor] = donors[op[q].donor]
             /\ consent'[op[q].donor] = consent[op[q].donor]
  <2>1. op[q].donor \in Donors
    BY Own
  <2>2. op[q].donor # op[p].donor
    BY <1>2, <1>3 DEF Core, Apart, Overlap
  <2>3. QED BY <1>2, <2>1, <2>2 DEF OwnDonor
<1>4. QED BY <1>1, <1>2, <1>3, StepTyped, MoveKeepsCore DEF Continues

-----------------------------------------------------------------------------
(* The other steps. *)

Same(m, n) ==
  /\ n \in Ops /\ n.step = m.step /\ n.kind = m.kind /\ n.donor = m.donor
  /\ n.channel = m.channel /\ n.optOut = m.optOut /\ n.known = m.known
  /\ n.lastContact = m.lastContact /\ n.at = m.at /\ n.alone \in BOOLEAN
  /\ n.alone => m.alone

\* A new operation n, which takes being alone from those it overlaps.
Begun(p, n) ==
  /\ op[p].step = "idle" /\ op'[p] = n /\ op' \in [Callers -> Ops]
  /\ OpOK(n) /\ n.at = 0 /\ ~n.known
  /\ n.step \in {"upsert", "select", "erase", "upsertFirst", "find"} /\ ~Checked(n)
  /\ request' = Unsettled(n)
  /\ \A q \in Callers : q # p =>
       /\ Same(op[q], op'[q])
       /\ op[q].step = "idle" => op'[q] = op[q]
       /\ Overlap(op[q], n) => ~op'[q].alone /\ ~n.alone

LEMMA BeginShape ==
  ASSUME Core, NEW p \in Callers, Begin(p)
  PROVE  (\E n : Begun(p, n))
         /\ UNCHANGED <<donors, consent, sentAt, erased, now, granted>>
<1>1. PICK d \in Donors, c \in Channels, kind \in Kinds \cup {"erase"},
           optOut, first \in BOOLEAN :
        LET new == [NoOp EXCEPT !.step = First(kind, first), !.kind = kind,
                      !.donor = d, !.channel = c,
                      !.optOut = (kind = "edit" /\ optOut) \/ kind = "optOut",
                      !.wasOut = (kind = "send" /\ donors[d].optedOut)]
        IN  /\ At(p, "idle") /\ started < MaxOps
            /\ started' = started + 1
            /\ op' = Entered(p, new)
            /\ request' = Unsettled(new)
            /\ UNCHANGED <<donors, consent, sentAt, erased, now, crashes, granted>>
  BY Zenon DEF Begin
<1> DEFINE sp == First(kind, first)
           out == (kind = "edit" /\ optOut) \/ kind = "optOut"
           was == kind = "send" /\ donors[d].optedOut
           n1 == [NoOp EXCEPT !.step = sp]
           n2 == [n1 EXCEPT !.kind = kind]
           n3 == [n2 EXCEPT !.donor = d]
           n4 == [n3 EXCEPT !.channel = c]
           n5 == [n4 EXCEPT !.optOut = out]
           new == [n5 EXCEPT !.wasOut = was]
<1>2. op' = Entered(p, new) /\ request' = Unsettled(new)
  BY <1>1, NoOpTyped DEF Ops
<1>3. /\ sp \in Steps /\ sp \in {"upsert", "select", "erase", "upsertFirst", "find"}
      /\ kind \in {"edit", "consent"} => sp = "upsert"
      /\ kind \in {"optOut", "restore"} => sp = "select"
      /\ kind = "erase" => sp = "erase"
      /\ kind \in {"send", "preview"} => sp \in {"upsertFirst", "find"}
  BY DEF First, Steps, Kinds
<1>4. /\ out \in BOOLEAN /\ was \in BOOLEAN
      /\ kind = "optOut" => out
      /\ kind \notin {"edit", "optOut"} => ~out
  BY DEF Core, TypeOK
<1> HIDE DEF sp, out, was
<1>5. n1 \in Ops /\ n1.step = sp /\ n1.at = 0 /\ n1.known = FALSE
  BY <1>3, NoOpTyped DEF Ops, NoOp
<1> HIDE DEF n1
<1>6. n2 \in Ops /\ n2.step = sp /\ n2.at = 0 /\ n2.known = FALSE /\ n2.kind = kind
  BY <1>5 DEF Ops
<1> HIDE DEF n2
<1>7. n3 \in Ops /\ n3.step = sp /\ n3.at = 0 /\ n3.known = FALSE /\ n3.kind = kind
  BY <1>6 DEF Ops
<1> HIDE DEF n3
<1>8. n4 \in Ops /\ n4.step = sp /\ n4.at = 0 /\ n4.known = FALSE /\ n4.kind = kind
  BY <1>7 DEF Ops
<1> HIDE DEF n4
<1>9. /\ n5 \in Ops /\ n5.step = sp /\ n5.at = 0 /\ n5.known = FALSE /\ n5.kind = kind
      /\ n5.optOut = out
  BY <1>4, <1>8 DEF Ops
<1> HIDE DEF n5
<1>10. /\ new \in Ops /\ new.step = sp /\ new.at = 0 /\ new.known = FALSE
       /\ new.kind = kind /\ new.optOut = out
  BY <1>4, <1>9 DEF Ops
<1> HIDE DEF new
<1>11. op \in [Callers -> Ops] /\ op[p].step = "idle"
  BY <1>1, TypeIs DEF Core, At
<1> DEFINE over(q) == op[q].step # "idle" /\ op[q].donor = new.donor
           none == {q \in Callers : over(q)} = {}
           n == [new EXCEPT !.alone = none]
<1>12. op' = [q \in Callers |->
                IF q = p THEN [new EXCEPT !.alone = none]
                ELSE [op[q] EXCEPT !.alone = @ /\ q \notin {r \in Callers : over(r)}]]
  BY <1>2 DEF Entered
<1>13. none \in BOOLEAN /\ \A q \in Callers : over(q) => ~none
  OBVIOUS
<1>14. \A q \in Callers : over(q) <=> Overlap(op[q], new)
  BY <1>3, <1>10 DEF Overlap
<1>15. \A q \in Callers : over(q) <=> q \in {r \in Callers : over(r)}
  OBVIOUS
<1> HIDE DEF none
<1>16. /\ n \in Ops /\ n.step = sp /\ n.at = 0 /\ n.known = FALSE /\ n.kind = kind
       /\ n.optOut = out /\ n.donor = new.donor /\ n.channel = new.channel
       /\ n.alone = none
  BY <1>10, <1>13 DEF Ops
<1>17. op'[p] = n
  BY <1>12
<1> HIDE DEF n, over
<1>18. OpOK(n) /\ ~Checked(n)
  BY <1>3, <1>4, <1>16 DEF OpOK, Checked, Sending
<1>19. ASSUME NEW q \in Callers, q # p
       PROVE  /\ Same(op[q], op'[q])
              /\ op[q].step = "idle" => op'[q] = op[q]
              /\ Overlap(op[q], n) => ~op'[q].alone /\ ~n.alone
  <2> DEFINE b == op[q].alone /\ ~over(q)
  <2>1. op[q] \in Ops /\ op[q].alone \in BOOLEAN
    BY <1>11 DEF Ops
  <2>2. op'[q] = [op[q] EXCEPT !.alone = b]
    BY <1>12, <1>15, <1>19
  <2>3. b \in BOOLEAN
    BY <2>1
  <2>4. over(q) <=> Overlap(op[q], n)
    BY <1>14, <1>16, <1>10 DEF Overlap
  <2>5. op[q].step = "idle" => op'[q] = op[q]
    <3>1. SUFFICES ASSUME op[q].step = "idle" PROVE op'[q] = op[q]
      OBVIOUS
    <3>2. b = op[q].alone
      BY <2>1, <3>1, <2>4 DEF Overlap
    <3>3. [op[q] EXCEPT !.alone = op[q].alone] = op[q]
      BY <2>1 DEF Ops
    <3>4. QED BY <2>2, <3>2, <3>3
  <2>6. b => op[q].alone /\ ~Overlap(op[q], n)
    BY <2>4
  <2> HIDE DEF b
  <2>7. Same(op[q], op'[q]) /\ op'[q].alone = b
    BY <2>1, <2>2, <2>3, <2>6 DEF Same, Ops
  <2>8. QED BY <1>13, <1>16, <2>4, <2>5, <2>6, <2>7
<1>20. op' \in [Callers -> Ops]
  BY <1>12, <1>16, <1>17, <1>19 DEF Same
<1>21. request' = Unsettled(n)
  <2>1. n.kind = new.kind /\ n.donor = new.donor /\ n.channel = new.channel
    BY <1>10, <1>16
  <2>2. QED BY <1>2, <2>1 DEF Unsettled
<1>22. Begun(p, n)
  BY <1>3, <1>11, <1>16, <1>17, <1>18, <1>19, <1>20, <1>21 DEF Begun
<1>23. QED BY <1>1, <1>22

LEMMA UnsettledAt ==
  ASSUME TypeOK, NEW n \in Ops, request' = Unsettled(n), NEW d \in Donors,
         NEW c \in Channels
  PROVE  /\ request'[d][c] \in {request[d][c], "unclear"}
         /\ n.donor = d /\ n.kind = "erase" => request'[d][c] = "unclear"
         /\ n.donor = d /\ n.kind \in {"consent", "restore"} /\ n.channel = c =>
              request'[d][c] = "unclear"
         /\ n.donor = d /\ n.kind \in {"edit", "optOut"} => request'[d][c] # "in"
         /\ request' \in [Donors -> [Channels -> Asked]]
<1>1. request \in [Donors -> [Channels -> Asked]] /\ n.donor \in Donors
  BY TypeIs DEF Ops
<1> DEFINE new == [x \in Channels |->
                    CASE n.kind \in {"send", "preview"} -> request[n.donor][x]
                      [] n.kind \in {"consent", "restore"} ->
                           IF x = n.channel THEN "unclear" ELSE request[n.donor][x]
                      [] n.kind = "erase" -> "unclear"
                      [] OTHER ->
                           IF request[n.donor][x] = "in" THEN "unclear"
                           ELSE request[n.donor][x]]
<1>2. request' = [request EXCEPT ![n.donor] = new]
  BY DEF Unsettled
<1>3. ASSUME NEW x \in Channels
      PROVE  /\ new[x] \in {request[n.donor][x], "unclear"}
             /\ new[x] \in Asked
             /\ n.kind = "erase" => new[x] = "unclear"
             /\ n.kind \in {"consent", "restore"} /\ n.channel = x => new[x] = "unclear"
             /\ n.kind \in {"edit", "optOut"} => new[x] # "in"
  BY <1>1 DEF Asked
<1>4. new \in [Channels -> Asked]
  BY <1>3
<1> HIDE DEF new
<1>5. request' \in [Donors -> [Channels -> Asked]]
  BY <1>1, <1>2, <1>4
<1>6. /\ n.donor = d => request'[d][c] = new[c]
      /\ n.donor # d => request'[d][c] = request[d][c]
  BY <1>1, <1>2
<1>7. QED BY <1>3, <1>5, <1>6

LEMMA BeginKeepsCore ==
  ASSUME Core, NEW p \in Callers, Begin(p) PROVE Core'
<1>1. PICK n : Begun(p, n)
  BY BeginShape
<1>2. UNCHANGED <<donors, consent, sentAt, erased, now, granted>>
  BY BeginShape
<1>3. /\ op \in [Callers -> Ops] /\ Apart /\ TypeOK
      /\ \A q \in Callers : OpOK(op[q]) /\ View(q)
  BY TypeIs DEF Core
<1>4. OpOK(op'[p]) /\ Relies(op'[p], donors'[n.donor], consent'[n.donor][n.channel])
  BY <1>1 DEF Begun, Relies
<1>5. ASSUME NEW q \in Callers, q # p
      PROVE  /\ OpOK(op'[q])
             /\ Relies(op'[q], donors'[op'[q].donor], consent'[op'[q].donor][op'[q].channel])
  <2>1. OpOK(op[q]) /\ View(q) /\ Same(op[q], op'[q])
    BY <1>1, <1>3, <1>5 DEF Begun
  <2>2. OpOK(op'[q])
    <3>1. CASE op[q].step = "idle"
      BY <1>1, <1>5, <2>1, <3>1 DEF Begun
    <3>2. CASE op[q].step # "idle"
      BY <2>1, <3>2 DEF Same, OpOK
    <3>3. QED BY <3>1, <3>2
  <2>3. Relies(op[q], donors[op[q].donor], consent[op[q].donor][op[q].channel])
    BY <2>1 DEF View
  <2>4. Relies(op'[q], donors[op[q].donor], consent[op[q].donor][op[q].channel])
    BY <2>1, <2>3 DEF Same, Relies, Checked, Sending
  <2>5. QED BY <1>2, <2>1, <2>2, <2>4 DEF Same
<1>6. ASSUME NEW q \in Callers PROVE (OpOK(op[q]) /\ View(q))'
  BY <1>1, <1>4, <1>5 DEF View, OpOK, Begun
<1>7. Apart'
  <2> SUFFICES ASSUME NEW q \in Callers, NEW r \in Callers, q # r,
                      Overlap(op'[q], op'[r])
               PROVE  ~op'[q].alone
    BY DEF Apart
  <2>1. CASE q = p
    BY <1>1, <2>1 DEF Begun, Overlap, Same
  <2>2. CASE r = p
    BY <1>1, <2>2 DEF Begun, Overlap, Same
  <2>3. CASE q # p /\ r # p
    BY <1>1, <1>3, <2>3 DEF Begun, Overlap, Same, Apart
  <2>4. QED BY <2>1, <2>2, <2>3
<1>8. TypeOK'
  <2>1. n \in Ops /\ request' = Unsettled(n)
    BY <1>1 DEF Begun, OpOK
  <2>2. \E d \in Donors, c \in Channels : TRUE
    BY OutreachAssumption DEF OutreachAssumption
  <2>3. request' \in [Donors -> [Channels -> Asked]]
    BY <1>3, <2>1, <2>2, UnsettledAt
  <2>4. op' \in [Callers -> Ops]
    BY <1>1 DEF Begun
  <2>5. QED BY <1>2, <1>3, <2>3, <2>4 DEF TypeOK, Ops, Asked
<1>9. QED BY <1>6, <1>7, <1>8 DEF Core

LEMMA CrashKeepsCore ==
  ASSUME Core, NEW p \in Callers, Crash(p) PROVE Core'
<1>1. /\ op' = [op EXCEPT ![p] = NoOp]
      /\ UNCHANGED <<donors, consent, sentAt, erased, now, granted, request>>
  BY DEF Crash, Finish
<1>2. op' \in [Callers -> Ops]
  BY <1>1, NoOpTyped, TypeIs DEF Core
<1>3. TypeOK'
  BY <1>1, <1>2 DEF Core, TypeOK, Ops
<1>4. QED BY <1>1, <1>3, NoOpTyped, NoOpRelies, MoveKeepsCore

LEMMA TickKeepsCore ==
  ASSUME Core, Tick PROVE Core' /\ now' \in Int /\ now' >= now
<1>1. now \in 0..MaxTime /\ now < MaxTime /\ now' = now + 1
  BY TypeIs DEF Core, Tick
<1>2. now' \in 0..MaxTime /\ now' >= now /\ now' \in Int
  BY <1>1, Constant
<1>3. UNCHANGED <<donors, consent, sentAt, erased, op, granted, request>>
  BY DEF Tick
<1>4. TypeOK'
  BY <1>2, <1>3 DEF Core, TypeOK
<1>5. QED BY <1>2, <1>3, <1>4 DEF Core, View, OpOK, Apart

LEMMA StutterKeepsCore ==
  ASSUME Core, UNCHANGED vars PROVE Core'
BY DEF Core, TypeOK, View, OpOK, Apart, vars

LEMMA InitCore == ASSUME Init PROVE Core
<1>1. Absent \in DonorRows /\ <<>> \in Seq(Mails)
  BY Constant DEF Absent, DonorRows
<1>2. TypeOK
  BY <1>1, NoOpTyped, Constant, TypeIs DEF Init, Given, Asked
<1>3. \A p \in Callers : OpOK(op[p]) /\ View(p)
  BY NoOpTyped, NoOpRelies DEF Init, View
<1>4. Apart
  BY NoOpTyped DEF Init, Apart, Overlap
<1>5. QED BY <1>2, <1>3, <1>4 DEF Core

\* Whatever its callers do and wherever one dies, the rows, the consent records
\* and the mail log of the donors keep their types, and so does each caller's
\* place in the operation it runs: no step leaves what the next one cannot read.
THEOREM TypeCorrect == Spec => []TypeOK
<1>1. Init => Core
  BY InitCore
<1>2. Core /\ [Next]_vars => Core'
  BY TickKeepsCore, CrashKeepsCore, StutterKeepsCore, StepKeepsCore, BeginKeepsCore
     DEF Next
<1>3. Core => TypeOK
  BY DEF Core
<1>4. QED BY <1>1, <1>2, <1>3, PTL DEF Spec

-----------------------------------------------------------------------------
(* A message has the donor's consent on file. *)

ConsentOnFile ==
  \A d \in Donors, c \in Channels : consent[d][c] = "granted" => <<d, c>> \in granted
Consents == ConsentOnFile /\ MailHasConsentOnFile

LEMMA StepKeepsOnFile ==
  ASSUME Core, ConsentOnFile, NEW p \in Callers, Step(p) PROVE ConsentOnFile'
<1>1. /\ op[p].donor \in Donors /\ op[p].channel \in Channels
      /\ consent \in [Donors -> [Channels -> Given]]
  BY Own
<1>2. CASE Insert(p)
  <2> DEFINE status == IF op[p].kind = "optOut" THEN "withdrawn" ELSE "granted"
  <2>1. /\ consent' = [consent EXCEPT ![op[p].donor][op[p].channel] = status]
        /\ granted' = IF status = "granted"
                      THEN granted \cup {<<op[p].donor, op[p].channel>>} ELSE granted
    BY <1>2 DEF Insert
  <2> HIDE DEF status
  <2>2. QED BY <1>1, <2>1 DEF ConsentOnFile
<1>3. CASE Erase(p)
  <2>1. CASE Row(p).known /\ op[p].donor \notin erased
    <3>1. /\ consent' = [consent EXCEPT ![op[p].donor] = [c \in Channels |-> "none"]]
          /\ granted' = granted \ ({op[p].donor} \X Channels)
      BY <1>3, <2>1 DEF Erase
    <3>2. QED BY <1>1, <3>1 DEF ConsentOnFile
  <2>2. CASE ~(Row(p).known /\ op[p].donor \notin erased)
    BY <1>3, <2>2 DEF Erase, ConsentOnFile
  <2>3. QED BY <2>1, <2>2
<1>4. CASE ~Insert(p) /\ ~Erase(p)
  <2>1. UNCHANGED <<consent, granted>>
    BY <1>4 DEF Step, Upsert, UpsertFirst, Create, Flag, Select, Find, Check, Mail,
       InsertFails, Log, Seal
  <2>2. QED BY <2>1 DEF ConsentOnFile
<1>5. QED BY <1>2, <1>3, <1>4

\* The message of the operation that makes the step.
LEMMA StepOwnMail ==
  ASSUME Core, Consents, NEW p \in Callers, Step(p), op'[p].step \in {"mail", "log"},
         op'[p].alone \/ op'[p].donor \notin erased'
  PROVE  <<op'[p].donor, op'[p].channel>> \in granted'
<1>1. /\ op \in [Callers -> Ops] /\ op[p] \in Ops /\ op[p].donor \in Donors
      /\ op[p].channel \in Channels /\ consent \in [Donors -> [Channels -> Given]]
  BY Own
<1>2. ~Finish(p)
  BY <1>1, NoOpTyped DEF Finish
<1>3. ASSUME NEW x, Goto(p, x)
      PROVE  /\ op'[p].step = x /\ op'[p].donor = op[p].donor
             /\ op'[p].channel = op[p].channel /\ op'[p].alone = op[p].alone
  BY <1>1, <1>3 DEF Goto, Ops
<1>4. CASE Insert(p)
  <2>1. op[p].kind \in {"send", "preview"}
    <3>1. op[p].kind # "consent"
      BY <1>2, <1>4 DEF Insert
    <3>2. ~Goto(p, "seal")
      BY <1>3
    <3>3. ~(op[p].kind \in {"optOut", "restore"})
      BY <1>4, <3>1, <3>2 DEF Insert
    <3>4. QED BY <1>4, <3>1, <3>3, InsertKinds DEF Insert
  <2>2. <<op[p].donor, op[p].channel>> \in granted'
    BY <1>4, <2>1 DEF Insert
  <2>3. op'[p].donor = op[p].donor /\ op'[p].channel = op[p].channel
    BY <1>3, <1>4, <2>1 DEF Insert
  <2>4. QED BY <2>2, <2>3
<1>5. CASE Check(p)
  <2> DEFINE k == [op[p] EXCEPT !.at = now]
             n == [k EXCEPT !.step = AfterChecks(p)]
  <2>1. /\ consent[op[p].donor][op[p].channel] # "withdrawn"
        /\ op' = [op EXCEPT ![p] = n]
    BY <1>1, <1>2, <1>5 DEF Check, Ops
  <2>2. now \in 0..MaxTime
    BY TypeIs DEF Core
  <2>3. k \in Ops /\ k.donor = op[p].donor /\ k.channel = op[p].channel
    BY <1>1, <2>2 DEF Ops
  <2> HIDE DEF k
  <2>4. n.step = AfterChecks(p) /\ n.donor = op[p].donor /\ n.channel = op[p].channel
    BY <2>3 DEF Ops
  <2>5. op'[p] = n
    BY <1>1, <2>1
  <2> HIDE DEF n
  <2>6. consent[op[p].donor][op[p].channel] # "none"
    BY <2>4, <2>5 DEF AfterChecks
  <2>7. consent[op[p].donor][op[p].channel] = "granted"
    BY <1>1, <2>1, <2>6 DEF Given
  <2>8. <<op[p].donor, op[p].channel>> \in granted /\ granted' = granted
    BY <1>1, <1>5, <2>7 DEF Consents, ConsentOnFile, Check
  <2>9. QED BY <2>4, <2>5, <2>8
<1>6. CASE Mail(p)
  <2>1. /\ op[p].step = "mail" /\ Goto(p, "log")
        /\ granted' = granted /\ erased' = erased
    BY <1>6 DEF Mail, At, Rest
  <2>2. QED BY <1>3, <2>1 DEF Consents, MailHasConsentOnFile
<1>7. CASE Upsert(p) \/ UpsertFirst(p) \/ Flag(p)
  <2>1. \E x \in {"insert", "find", "seal", "upsert"} : Goto(p, x)
    BY <1>2, <1>7 DEF Upsert, UpsertFirst, Flag
  <2>2. QED BY <1>3, <2>1
<1>8. CASE Find(p)
  <2>1. op'[p].step \in {"create", "check"}
    BY <1>1, <1>2, <1>8 DEF Find, Goto, Ops
  <2>2. QED BY <2>1
<1>9. CASE Create(p) \/ Select(p)
  <2>1. op'[p].step \in {"find", "flag"}
    BY <1>1, <1>9 DEF Create, Select, Ops
  <2>2. QED BY <2>1
<1>10. CASE InsertFails(p) \/ Seal(p) \/ Erase(p) \/ Log(p)
  BY <1>2, <1>10 DEF InsertFails, Seal, Erase, Log
<1>11. QED BY <1>4, <1>5, <1>6, <1>7, <1>8, <1>9, <1>10 DEF Step

LEMMA StepKeepsConsents ==
  ASSUME Core, Consents, NEW p \in Callers, Step(p) PROVE Consents'
<1>1. ASSUME NEW q \in Callers, q # p, op'[q].step \in {"mail", "log"},
             op'[q].alone \/ op'[q].donor \notin erased'
      PROVE  <<op'[q].donor, op'[q].channel>> \in granted'
  <2>1. op'[q] = op[q]
    BY <1>1, StepMoves, Own DEF Moves
  <2>2. op[q].donor \in Donors /\ op[q].channel \in Channels /\ op[q].step # "idle"
    BY <1>1, <2>1, Own
  <2>3. CASE op[q].donor # op[p].donor
    BY <1>1, <2>1, <2>2, <2>3, StepOwnDonor DEF OwnDonor, Consents, MailHasConsentOnFile
  <2>4. CASE op[q].donor = op[p].donor
    <3>1. ~op[q].alone
      BY <1>1, <2>2, <2>4, StepMoves DEF Core, Apart, Overlap
    <3>2. op[q].donor \notin erased'
      BY <1>1, <2>1, <3>1
    <3>3. erased \subseteq erased' /\ (granted \subseteq granted' \/ op[p].donor \in erased')
      <4>1. CASE Erase(p)
        BY <4>1 DEF Erase
      <4>2. CASE ~Erase(p)
        BY <4>2 DEF Step, Upsert, UpsertFirst, Create, Flag, Select, Find, Check,
           Mail, InsertFails, Insert, Log, Seal, Rest
      <4>3. QED BY <4>1, <4>2
    <3>4. <<op[q].donor, op[q].channel>> \in granted
      BY <1>1, <2>1, <3>2, <3>3 DEF Consents, MailHasConsentOnFile
    <3>5. QED BY <2>1, <2>4, <3>2, <3>3, <3>4
  <2>5. QED BY <2>3, <2>4
<1>2. ASSUME NEW q \in Callers, op'[q].step \in {"mail", "log"},
             op'[q].alone \/ op'[q].donor \notin erased'
      PROVE  <<op'[q].donor, op'[q].channel>> \in granted'
  BY <1>1, <1>2, StepOwnMail
<1>3. MailHasConsentOnFile'
  BY <1>2 DEF MailHasConsentOnFile
<1>4. QED BY <1>3, StepKeepsOnFile DEF Consents

LEMMA BeginKeepsConsents ==
  ASSUME Core, Consents, NEW p \in Callers, Begin(p) PROVE Consents'
<1>1. PICK n : Begun(p, n)
  BY BeginShape
<1>2. UNCHANGED <<donors, consent, sentAt, erased, now, granted>>
  BY BeginShape
<1>3. ASSUME NEW q \in Callers, op'[q].step \in {"mail", "log"},
             op'[q].alone \/ op'[q].donor \notin erased'
      PROVE  <<op'[q].donor, op'[q].channel>> \in granted'
  <2>1. q # p /\ Same(op[q], op'[q])
    BY <1>1, <1>3 DEF Begun
  <2>2. QED BY <1>2, <1>3, <2>1 DEF Same, Consents, MailHasConsentOnFile
<1>4. MailHasConsentOnFile'
  BY <1>3 DEF MailHasConsentOnFile
<1>5. QED BY <1>2, <1>4 DEF Consents, ConsentOnFile

LEMMA NextKeepsConsents ==
  ASSUME Core, Consents, [Next]_vars PROVE Core' /\ Consents'
<1>1. CASE Tick
  BY <1>1, TickKeepsCore DEF Tick, Consents, ConsentOnFile, MailHasConsentOnFile
<1>2. ASSUME NEW p \in Callers, Crash(p) PROVE Core' /\ Consents'
  <2>1. UNCHANGED <<consent, erased, granted>> /\ op' = [op EXCEPT ![p] = NoOp]
    BY <1>2 DEF Crash, Finish
  <2>2. op'[p].step = "idle" /\ \A q \in Callers : q # p => op'[q] = op[q]
    BY <2>1, NoOpTyped, Own
  <2>3. MailHasConsentOnFile'
    BY <2>1, <2>2 DEF Consents, MailHasConsentOnFile
  <2>4. ConsentOnFile'
    BY <2>1 DEF Consents, ConsentOnFile
  <2>5. QED BY <1>2, <2>3, <2>4, CrashKeepsCore DEF Consents
<1>3. CASE UNCHANGED vars
  BY <1>3, StutterKeepsCore DEF vars, Consents, ConsentOnFile, MailHasConsentOnFile
<1>4. QED BY <1>1, <1>2, <1>3, StepKeepsCore, StepKeepsConsents, BeginKeepsCore,
             BeginKeepsConsents DEF Next

\* send_outreach mails only with a granted consent record on file, for any
\* callers, donors, channels and interleaving.
THEOREM MailHasConsent == Spec => []MailHasConsentOnFile
<1>1. Init => Core /\ Consents
  BY InitCore, NoOpTyped DEF Init, Consents, ConsentOnFile, MailHasConsentOnFile
<1>2. Core /\ Consents /\ [Next]_vars => Core' /\ Consents'
  BY NextKeepsConsents
<1>3. Consents => MailHasConsentOnFile
  BY DEF Consents
<1>4. QED BY <1>1, <1>2, <1>3, PTL DEF Spec

-----------------------------------------------------------------------------
(* The throttle. *)

\* When the messages were sent, against the clock, the row and the operations
\* that have passed the checks.
SentInTime(m, d) ==
  /\ m.at <= now
  /\ m.alone =>
       /\ m.at <= donors[d].lastContact
       /\ \A q \in Callers : Checked(op[q]) /\ op[q].donor = d => m.at <= op[q].at
Times ==
  /\ \A p \in Callers : op[p].at <= now
  /\ \A d \in Donors : \A i \in DOMAIN sentAt[d] : SentInTime(sentAt[d][i], d)
Spaced == Times /\ ThrottleHolds

\* The clock of the operation that makes the step.
LEMMA StepTime ==
  ASSUME Core, NEW p \in Callers, Step(p)
  PROVE  /\ op'[p].at \in {op[p].at, now, 0}
         /\ Checked(op'[p]) =>
              /\ op'[p].donor = op[p].donor
              /\ \/ op'[p].at = now /\ consent[op[p].donor][op[p].channel] # "withdrawn"
                 \/ Checked(op[p]) /\ op'[p].at = op[p].at
<1>1. op \in [Callers -> Ops] /\ op[p] \in Ops /\ OpOK(op[p]) /\ now \in 0..MaxTime
  BY Own, TypeIs DEF Core
<1>2. CASE Finish(p)
  <2>1. op'[p] = NoOp /\ NoOp.at = 0 /\ ~Checked(NoOp)
    BY <1>1, <1>2 DEF Finish, NoOp, Checked, Sending
  <2>2. QED BY <2>1
<1>3. ASSUME NEW x, Goto(p, x),
             x \notin {"upsert", "insert", "mail", "log"} \/ Checked(op[p])
             \/ ~Sending(op[p])
      PROVE  /\ op'[p].at = op[p].at /\ op'[p].donor = op[p].donor
             /\ Checked(op'[p]) => Checked(op[p])
  <2>1. op'[p] = [op[p] EXCEPT !.step = x]
    BY <1>1, <1>3 DEF Goto
  <2>2. /\ op'[p].at = op[p].at /\ op'[p].donor = op[p].donor
        /\ op'[p].kind = op[p].kind /\ op'[p].step = x
    BY <1>1, <2>1 DEF Ops
  <2>3. QED BY <1>3, <2>2 DEF Checked, Sending
<1>4. CASE Upsert(p)
  <2>1. Finish(p) \/ (Goto(p, "insert") /\ (Checked(op[p]) \/ ~Sending(op[p])))
    BY <1>4 DEF Upsert, At, Checked
  <2>2. QED BY <1>2, <1>3, <2>1
<1>5. CASE Insert(p)
  <2>1. Checked(op[p]) \/ ~Sending(op[p])
    BY <1>5 DEF Insert, At, Checked
  <2>2. Finish(p) \/ Goto(p, "seal") \/ Goto(p, "mail") \/ Goto(p, "log")
    BY <1>5, InsertKinds DEF Insert
  <2>3. QED BY <1>2, <1>3, <2>1, <2>2
<1>6. CASE Select(p)
  <2> DEFINE k == [op[p] EXCEPT !.known = Row(p).known]
             n == [k EXCEPT !.step = "flag"]
  <2>1. op'[p] = n
    BY <1>1, <1>6 DEF Select, Ops
  <2>2. k \in Ops /\ k.at = op[p].at
    BY <1>1, Own DEF Ops, DonorRows
  <2> HIDE DEF k
  <2>3. n.step = "flag" /\ n.at = op[p].at
    BY <2>2 DEF Ops
  <2>4. QED BY <2>1, <2>3 DEF Checked
<1>7. CASE Flag(p)
  <2>1. ~Sending(op[p])
    BY <1>1, <1>7 DEF Flag, At, OpOK, Sending
  <2>2. \E x \in {"insert", "upsert"} : Goto(p, x)
    BY <1>7 DEF Flag
  <2>3. QED BY <1>3, <2>1, <2>2
<1>8. CASE UpsertFirst(p)
  BY <1>3, <1>8 DEF UpsertFirst
<1>9. CASE Find(p)
  <2>1. CASE Goto(p, "create")
    BY <1>3, <2>1
  <2>2. CASE ~Finish(p) /\ ~Goto(p, "create")
    <3> DEFINE k == [op[p] EXCEPT !.lastContact = Row(p).lastContact]
               n == [k EXCEPT !.step = "check"]
    <3>1. op'[p] = n
      BY <1>1, <1>9, <2>2 DEF Find, Ops
    <3>2. k \in Ops /\ k.at = op[p].at
      BY <1>1, Own DEF Ops, DonorRows
    <3> HIDE DEF k
    <3>3. n.step = "check" /\ n.at = op[p].at
      BY <3>2 DEF Ops
    <3>4. QED BY <3>1, <3>3 DEF Checked
  <2>3. QED BY <1>2, <2>1, <2>2
<1>10. CASE Create(p)
  <2> DEFINE k == [op[p] EXCEPT !.known = TRUE]
             n == [k EXCEPT !.step = "find"]
  <2>1. op'[p] = n
    BY <1>1, <1>10 DEF Create, Ops
  <2>2. k \in Ops /\ k.at = op[p].at
    BY <1>1 DEF Ops
  <2> HIDE DEF k
  <2>3. n.step = "find" /\ n.at = op[p].at
    BY <2>2 DEF Ops
  <2>4. QED BY <2>1, <2>3 DEF Checked
<1>11. CASE Check(p)
  <2>1. CASE ~Finish(p)
    <3> DEFINE k == [op[p] EXCEPT !.at = now]
               n == [k EXCEPT !.step = AfterChecks(p)]
    <3>1. op'[p] = n
      BY <1>1, <1>11, <2>1 DEF Check, Ops
    <3>2. k \in Ops /\ k.at = now /\ k.donor = op[p].donor
      BY <1>1 DEF Ops
    <3> HIDE DEF k
    <3>3. n.at = now /\ n.donor = op[p].donor
      BY <3>2 DEF Ops
    <3>4. consent[op[p].donor][op[p].channel] # "withdrawn"
      BY <1>11, <2>1 DEF Check
    <3>5. QED BY <3>1, <3>3, <3>4
  <2>2. QED BY <1>2, <2>1
<1>12. CASE Mail(p)
  <2>1. Goto(p, "log") /\ (Checked(op[p]) \/ ~Sending(op[p]))
    BY <1>12 DEF Mail, At, Checked
  <2>2. QED BY <1>3, <2>1
<1>13. CASE InsertFails(p) \/ Seal(p) \/ Erase(p) \/ Log(p)
  BY <1>2, <1>13 DEF InsertFails, Seal, Erase, Log
<1>14. QED BY <1>4, <1>5, <1>6, <1>7, <1>8, <1>9, <1>10, <1>11, <1>12, <1>13 DEF Step

\* Only Log and Erase touch the messages and the time of the last contact.
LEMMA StepContact ==
  ASSUME Core, NEW p \in Callers, Step(p), ~Log(p), ~Erase(p)
  PROVE  /\ sentAt' = sentAt
         /\ \A d \in Donors : donors'[d].lastContact = donors[d].lastContact
<1>1. /\ op[p] \in Ops /\ op[p].donor \in Donors /\ donors \in [Donors -> DonorRows]
      /\ Row(p) \in DonorRows
  BY Own
<1>2. op[p].optOut \in BOOLEAN
  BY <1>1 DEF Ops
<1>3. /\ \A b \in BOOLEAN : Upserted(Row(p), b).lastContact = Row(p).lastContact
      /\ \A b \in BOOLEAN : Flagged(Row(p), b).lastContact = Row(p).lastContact
  BY <1>1, UpsertedFields, FlaggedFields
<1>4. CASE Upsert(p)
  BY <1>1, <1>2, <1>3, <1>4 DEF Upsert, Row, Rest
<1>5. CASE UpsertFirst(p) \/ Create(p)
  BY <1>1, <1>2, <1>3, <1>5 DEF UpsertFirst, Create, Row, Rest
<1>6. CASE Flag(p)
  BY <1>1, <1>2, <1>3, <1>6 DEF Flag, Row, Rest
<1>7. CASE Seal(p)
  BY <1>1, <1>2, <1>3, <1>7 DEF Seal, Row, Rest
<1>8. CASE Select(p) \/ Find(p) \/ Check(p) \/ Mail(p) \/ InsertFails(p) \/ Insert(p)
  BY <1>8 DEF Select, Find, Check, Mail, InsertFails, Insert, Rest
<1>9. QED BY <1>4, <1>5, <1>6, <1>7, <1>8 DEF Step

LEMMA SentTypes ==
  ASSUME Core, NEW d \in Donors, NEW i \in DOMAIN sentAt[d]
  PROVE  /\ sentAt[d][i].at \in 0..MaxTime /\ sentAt[d][i].alone \in BOOLEAN
         /\ sentAt[d] \in Seq(Mails) /\ i \in 1..Len(sentAt[d])
         /\ donors[d].lastContact \in Int
<1>1. sentAt[d] \in Seq(Mails) /\ donors[d] \in DonorRows
  BY TypeIs DEF Core
<1>2. sentAt[d][i] \in Mails /\ i \in 1..Len(sentAt[d])
  BY <1>1
<1>3. QED BY <1>1, <1>2, Constant DEF Mails, DonorRows

LEMMA OwnTimes ==
  ASSUME Core, Times, NEW p \in Callers, Step(p)
  PROVE  \A q \in Callers : op'[q].at <= now'
<1>1. /\ op[p].at \in 0..MaxTime /\ now \in 0..MaxTime /\ now' = now
  BY Own, TypeIs, StepOwnDonor DEF Core, Ops
<1>2. op'[p].at <= now
  BY <1>1, StepTime DEF Times
<1>3. \A q \in Callers : q # p => op'[q] = op[q]
  BY StepMoves, Own DEF Moves
<1>4. QED BY <1>1, <1>2, <1>3 DEF Times

\* A message that was sent in time still is, if the row remembers it.
LEMMA StillInTime ==
  ASSUME Core, Times, NEW p \in Callers, Step(p), NEW d \in Donors,
         NEW i \in DOMAIN sentAt[d],
         sentAt[d][i].alone =>
           sentAt[d][i].at <= donors'[d].lastContact
  PROVE  LET m == sentAt[d][i] IN
         /\ m.at <= now'
         /\ m.alone =>
              /\ m.at <= donors'[d].lastContact
              /\ \A q \in Callers : Checked(op'[q]) /\ op'[q].donor = d => m.at <= op'[q].at
<1>1. SentInTime(sentAt[d][i], d) /\ now' = now
  BY StepOwnDonor DEF Times
<1>2. ASSUME NEW q \in Callers, Checked(op'[q]), op'[q].donor = d, sentAt[d][i].alone
      PROVE  sentAt[d][i].at <= op'[q].at
  <2>1. CASE q # p
    <3>1. op'[q] = op[q]
      BY <2>1, StepMoves, Own DEF Moves
    <3>2. QED BY <1>1, <1>2, <3>1 DEF SentInTime
  <2>2. CASE q = p
    BY <1>1, <1>2, <2>2, StepTime DEF SentInTime
  <2>3. QED BY <2>1, <2>2
<1>3. QED BY <1>1, <1>2 DEF SentInTime

LEMMA LogSpacing ==
  ASSUME Core, Spaced, NEW p \in Callers, Log(p) PROVE Times' /\ ThrottleHolds'
<1> DEFINE d == op[p].donor
           s == sentAt[d]
           m == [at |-> op[p].at, alone |-> op[p].alone]
<1>1. /\ op[p] \in Ops /\ OpOK(op[p]) /\ View(p) /\ d \in Donors
      /\ donors \in [Donors -> DonorRows] /\ Row(p) \in DonorRows
      /\ sentAt \in [Donors -> Seq(Mails)] /\ now \in 0..MaxTime
      /\ op \in [Callers -> Ops]
  BY Own, TypeIs DEF Core
<1>2. /\ op[p].step = "log" /\ Checked(op[p])
      /\ sentAt' = [sentAt EXCEPT ![d] = Append(s, m)]
      /\ donors' = [donors EXCEPT ![d] = Contacted(Row(p), op[p].at)]
      /\ op' = [op EXCEPT ![p] = NoOp] /\ now' = now /\ Step(p)
  BY <1>1 DEF Log, At, OpOK, Checked, Sending, Ops, Kinds, Finish, Row, Step
<1>3. /\ op[p].at \in 0..MaxTime /\ op[p].alone \in BOOLEAN /\ op[p].at <= now
  BY <1>1 DEF Ops, Spaced, Times
<1>4. /\ m.at = op[p].at /\ m.alone = op[p].alone /\ m \in Mails
  BY <1>3 DEF Mails
<1>5. /\ op[p].alone => Row(p).known
      /\ op[p].alone => Row(p).lastContact = Never \/ op[p].at - Row(p).lastContact >= Week
  BY <1>1, <1>2 DEF View, Relies, Row
<1>6. /\ Row(p).known => donors'[d].lastContact = op[p].at
      /\ ~Row(p).known => donors'[d].lastContact = Row(p).lastContact
  BY <1>1, <1>2, <1>3, ContactedFields
<1>7. \A e \in Donors : e # d => sentAt'[e] = sentAt[e] /\ donors'[e] = donors[e]
  BY <1>1, <1>2
<1>8. sentAt'[d] = Append(s, m) /\ s \in Seq(Mails)
  BY <1>1, <1>2
<1> HIDE DEF m
<1>9. /\ DOMAIN sentAt'[d] = 1..(Len(s) + 1) /\ Len(s) \in Nat
      /\ DOMAIN s = 1..Len(s)
      /\ sentAt'[d][Len(s) + 1] = m
      /\ \A i \in 1..Len(s) : sentAt'[d][i] = s[i]
  BY <1>4, <1>8
<1>10. ASSUME NEW i \in 1..Len(s), s[i].alone
       PROVE  /\ s[i].at <= op[p].at /\ s[i].at <= Row(p).lastContact
              /\ s[i].at \in 0..MaxTime
  <2>1. i \in DOMAIN sentAt[d]
    BY <1>9
  <2>2. SentInTime(s[i], d)
    BY <1>1, <2>1 DEF Spaced, Times
  <2>3. QED BY <1>1, <1>2, <1>10, <2>1, <2>2, SentTypes DEF SentInTime, Row
<1>11. Times'
  <2>1. ASSUME NEW e \in Donors, NEW i \in DOMAIN sentAt'[e]
        PROVE  SentInTime(sentAt[e][i], e)'
    <3>1. CASE e = d /\ i = Len(s) + 1
      <4>1. ASSUME NEW q \in Callers, Checked(op'[q]), op'[q].donor = d, m.alone
            PROVE  FALSE
        <5>1. q # p
          BY <1>1, <1>2, <4>1 DEF Checked, NoOp
        <5>2. op'[q] = op[q]
          BY <1>1, <1>2, <5>1
        <5>3. op[q].step # "idle" /\ op[p].step # "idle"
          BY <1>2, <4>1, <5>2 DEF Checked
        <5>4. QED BY <1>4, <4>1, <5>1, <5>2, <5>3 DEF Core, Apart, Overlap
      <4>2. m.alone => m.at <= donors'[d].lastContact
        BY <1>3, <1>4, <1>5, <1>6
      <4>3. m.at <= now'
        BY <1>2, <1>3, <1>4
      <4>4. sentAt'[e][i] = m
        BY <1>9, <3>1
      <4>5. QED BY <3>1, <4>1, <4>2, <4>3, <4>4 DEF SentInTime
    <3>2. CASE e = d /\ i # Len(s) + 1
      <4>1. i \in 1..Len(s) /\ i \in DOMAIN sentAt[e] /\ sentAt'[e][i] = sentAt[e][i]
        BY <1>9, <3>2
      <4>2. sentAt[e][i].alone => sentAt[e][i].at <= donors'[e].lastContact
        BY <1>6, <1>10, <3>2, <4>1
      <4>3. QED BY <1>2, <4>1, <4>2, StillInTime DEF SentInTime, Spaced
    <3>3. CASE e # d
      <4>1. i \in DOMAIN sentAt[e] /\ sentAt'[e][i] = sentAt[e][i] /\ donors'[e] = donors[e]
        BY <1>7, <3>3
      <4>2. sentAt[e][i].alone => sentAt[e][i].at <= donors'[e].lastContact
        BY <4>1 DEF Spaced, Times, SentInTime
      <4>3. QED BY <1>2, <4>1, <4>2, StillInTime DEF SentInTime, Spaced
    <3>4. QED BY <3>1, <3>2, <3>3
  <2>2. QED BY <1>2, <2>1, OwnTimes DEF Times, Spaced
<1>12. ASSUME NEW e \in Donors, NEW j \in DOMAIN sentAt'[e], NEW i \in 1..(j - 1),
              sentAt'[e][i].alone, sentAt'[e][j].alone
       PROVE  sentAt'[e][j].at - sentAt'[e][i].at >= Week
  <2>1. CASE e = d /\ j = Len(s) + 1
    <3>1. i \in 1..Len(s) /\ sentAt'[e][i] = s[i] /\ sentAt'[e][j] = m
      BY <1>9, <2>1
    <3>2. s[i].at \in 0..MaxTime /\ s[i].at <= Row(p).lastContact
      BY <1>10, <1>12, <3>1
    <3>3. Row(p).lastContact \in Never..MaxTime
      BY <1>1 DEF DonorRows
    <3>4. op[p].at - Row(p).lastContact >= Week
      BY <1>4, <1>5, <1>12, <3>1, <3>2, Constant
    <3>5. QED BY <1>3, <1>4, <3>1, <3>2, <3>3, <3>4, Constant
  <2>2. CASE e = d /\ j # Len(s) + 1
    <3>1. /\ j \in 1..Len(s) /\ i \in 1..Len(s) /\ j \in DOMAIN sentAt[e]
      BY <1>9, <2>2
    <3>2. sentAt'[e][i] = sentAt[e][i] /\ sentAt'[e][j] = sentAt[e][j]
      BY <1>9, <2>2, <3>1
    <3>3. QED BY <1>12, <3>1, <3>2 DEF Spaced, ThrottleHolds
  <2>3. CASE e # d
    BY <1>7, <1>12, <2>3 DEF Spaced, ThrottleHolds
  <2>4. QED BY <2>1, <2>2, <2>3
<1>13. QED BY <1>11, <1>12 DEF ThrottleHolds

LEMMA EraseSpacing ==
  ASSUME Core, Spaced, NEW p \in Callers, Erase(p) PROVE Times' /\ ThrottleHolds'
<1> DEFINE d == op[p].donor
<1>1. /\ d \in Donors /\ donors \in [Donors -> DonorRows]
      /\ sentAt \in [Donors -> Seq(Mails)] /\ Step(p)
  BY Own, TypeIs DEF Core, Step
<1>2. \A e \in Donors :
        \/ sentAt'[e] = <<>>
        \/ sentAt'[e] = sentAt[e] /\ donors'[e] = donors[e]
  <2>1. \/ UNCHANGED <<donors, sentAt>>
        \/ /\ sentAt' = [sentAt EXCEPT ![d] = <<>>]
           /\ donors' = [donors EXCEPT ![d] = Absent]
    BY DEF Erase
  <2>2. QED BY <1>1, <2>1
<1>3. Times'
  <2>1. ASSUME NEW e \in Donors, NEW i \in DOMAIN sentAt'[e]
        PROVE  SentInTime(sentAt[e][i], e)'
    <3>1. sentAt'[e] # <<>>
      BY <2>1
    <3>2. i \in DOMAIN sentAt[e] /\ sentAt'[e][i] = sentAt[e][i] /\ donors'[e] = donors[e]
      BY <1>2, <3>1
    <3>3. sentAt[e][i].alone => sentAt[e][i].at <= donors'[e].lastContact
      BY <3>2 DEF Spaced, Times, SentInTime
    <3>4. QED BY <1>1, <3>2, <3>3, StillInTime DEF SentInTime, Spaced
  <2>2. QED BY <1>1, <2>1, OwnTimes DEF Times, Spaced
<1>4. ASSUME NEW e \in Donors, NEW j \in DOMAIN sentAt'[e], NEW i \in 1..(j - 1),
             sentAt'[e][i].alone, sentAt'[e][j].alone
      PROVE  sentAt'[e][j].at - sentAt'[e][i].at >= Week
  <2>1. sentAt'[e] # <<>>
    BY <1>4
  <2>2. sentAt'[e] = sentAt[e]
    BY <1>2, <2>1
  <2>3. QED BY <1>4, <2>2 DEF Spaced, ThrottleHolds
<1>5. QED BY <1>3, <1>4 DEF ThrottleHolds

LEMMA StepKeepsSpaced ==
  ASSUME Core, Spaced, NEW p \in Callers, Step(p) PROVE Spaced'
<1>1. CASE Log(p)
  BY <1>1, LogSpacing DEF Spaced
<1>2. CASE Erase(p)
  BY <1>2, EraseSpacing DEF Spaced
<1>3. CASE ~Log(p) /\ ~Erase(p)
  <2>1. /\ sentAt' = sentAt
        /\ \A d \in Donors : donors'[d].lastContact = donors[d].lastContact
    BY <1>3, StepContact
  <2>2. ASSUME NEW e \in Donors, NEW i \in DOMAIN sentAt'[e]
        PROVE  SentInTime(sentAt[e][i], e)'
    <3>1. i \in DOMAIN sentAt[e] /\ sentAt'[e][i] = sentAt[e][i]
      BY <2>1
    <3>2. sentAt[e][i].alone => sentAt[e][i].at <= donors'[e].lastContact
      BY <2>1, <3>1 DEF Spaced, Times, SentInTime
    <3>3. QED BY <3>1, <3>2, StillInTime DEF SentInTime, Spaced
  <2>3. Times'
    BY <2>2, OwnTimes DEF Times, Spaced
  <2>4. ThrottleHolds'
    BY <2>1 DEF Spaced, ThrottleHolds
  <2>5. QED BY <2>3, <2>4 DEF Spaced
<1>4. QED BY <1>1, <1>2, <1>3

LEMMA BeginKeepsSpaced ==
  ASSUME Core, Spaced, NEW p \in Callers, Begin(p) PROVE Spaced'
<1>1. PICK n : Begun(p, n)
  BY BeginShape
<1>2. UNCHANGED <<donors, consent, sentAt, erased, now, granted>>
  BY BeginShape
<1>3. now \in 0..MaxTime
  BY TypeIs DEF Core
<1>4. ASSUME NEW q \in Callers
      PROVE  /\ op'[q].at <= now
             /\ Checked(op'[q]) =>
                  Checked(op[q]) /\ op'[q].donor = op[q].donor /\ op'[q].at = op[q].at
  <2>1. CASE q = p
    BY <1>1, <1>3, <2>1, Constant DEF Begun
  <2>2. CASE q # p
    BY <1>1, <2>2 DEF Begun, Same, Checked, Sending, Spaced, Times
  <2>3. QED BY <2>1, <2>2
<1>5. ASSUME NEW e \in Donors, NEW i \in DOMAIN sentAt'[e]
      PROVE  SentInTime(sentAt[e][i], e)'
  BY <1>2, <1>4 DEF SentInTime, Spaced, Times
<1>6. QED BY <1>2, <1>4, <1>5 DEF Spaced, Times, ThrottleHolds

LEMMA NextKeepsSpaced ==
  ASSUME Core, Spaced, [Next]_vars PROVE Core' /\ Spaced'
<1>1. CASE Tick
  <2>1. UNCHANGED <<donors, sentAt, op>> /\ Core'
    BY <1>1, TickKeepsCore DEF Tick
  <2>2. now' \in Int /\ now' >= now /\ now \in Int
    BY <1>1, TickKeepsCore, TypeIs DEF Core
  <2>3. \A p \in Callers : op[p].at \in Int
    BY Own DEF Ops
  <2>4. ASSUME NEW e \in Donors, NEW i \in DOMAIN sentAt[e]
        PROVE  SentInTime(sentAt[e][i], e)'
    <3>1. SentInTime(sentAt[e][i], e) /\ sentAt[e][i].at \in Int
      BY SentTypes DEF Spaced, Times
    <3>2. QED BY <2>1, <2>2, <3>1 DEF SentInTime
  <2>5. QED BY <2>1, <2>2, <2>3, <2>4 DEF Spaced, Times, ThrottleHolds
<1>2. ASSUME NEW p \in Callers, Crash(p) PROVE Core' /\ Spaced'
  <2>1. UNCHANGED <<donors, sentAt, now>> /\ op' = [op EXCEPT ![p] = NoOp]
    BY <1>2 DEF Crash, Finish
  <2>2. /\ op'[p].at = 0 /\ ~Checked(op'[p])
        /\ \A q \in Callers : q # p => op'[q] = op[q]
    BY <2>1, Own DEF NoOp, Checked, Sending
  <2>3. now \in 0..MaxTime /\ 0 <= now
    BY TypeIs, Constant DEF Core
  <2>4. ASSUME NEW e \in Donors, NEW i \in DOMAIN sentAt'[e]
        PROVE  SentInTime(sentAt[e][i], e)'
    BY <2>1, <2>2 DEF Spaced, Times, SentInTime
  <2>5. QED BY <1>2, <2>1, <2>2, <2>3, <2>4, CrashKeepsCore DEF Spaced, Times, ThrottleHolds
<1>3. CASE UNCHANGED vars
  BY <1>3, StutterKeepsCore DEF vars, Spaced, Times, SentInTime, ThrottleHolds
<1>4. QED BY <1>1, <1>2, <1>3, StepKeepsCore, StepKeepsSpaced, BeginKeepsCore,
             BeginKeepsSpaced DEF Next

\* The seven days between two messages of a donor, for any throttle, callers and
\* interleaving: what last_contact_at remembers is enough for the check of the
\* next message, as long as no other operation overlaps the two that logged them.
THEOREM ThrottleKept == Spec => []ThrottleHolds
<1>1. Init => Core /\ Spaced
  <2> SUFFICES ASSUME Init PROVE Core /\ Spaced
    OBVIOUS
  <2>1. /\ \A p \in Callers : op[p].at = 0
        /\ now = 0 /\ \A d \in Donors : sentAt[d] = <<>>
    BY DEF Init, NoOp
  <2>2. \A d \in Donors : DOMAIN sentAt[d] = {}
    BY <2>1
  <2>3. QED BY <2>1, <2>2, InitCore DEF Spaced, Times, ThrottleHolds
<1>2. Core /\ Spaced /\ [Next]_vars => Core' /\ Spaced'
  BY NextKeepsSpaced
<1>3. Spaced => ThrottleHolds
  BY DEF Spaced
<1>4. QED BY <1>1, <1>2, <1>3, PTL DEF Spec

-----------------------------------------------------------------------------
(* The requests that stand. *)

\* Operations that leave an opt-out, or a consent, on channel c in force.
Mild(n, c) ==
  /\ n.kind # "erase"
  /\ n.kind \in {"consent", "restore"} => n.channel # c
  /\ Checked(n) => n.channel # c
Gentle(n, c) ==
  /\ n.kind \notin {"erase", "edit", "optOut"}
  /\ n.kind \in {"consent", "restore"} => n.channel # c

Active(n, d) == n.step # "idle" /\ n.donor = d

Stands(d, c) ==
  /\ request[d][c] = "out" =>
       /\ consent[d][c] = "withdrawn"
       /\ \A q \in Callers : Active(op[q], d) => Mild(op[q], c)
  /\ request[d][c] = "in" =>
       /\ consent[d][c] = "granted" /\ donors[d].known /\ ~donors[d].optedOut
       /\ \A q \in Callers : Active(op[q], d) => Gentle(op[q], c)
AllStand == \A d \in Donors, c \in Channels : Stands(d, c)

LEMMA StepShape ==
  ASSUME Core, NEW p \in Callers, Step(p)
  PROVE  /\ op[p].step # "idle"
         /\ op'[p] = NoOp \/ Continues(op[p], op'[p])
         /\ \A q \in Callers : q # p => op'[q] = op[q]
BY StepMoves, Own DEF Moves

LEMMA StepKeepsRow ==
  ASSUME Core, NEW p \in Callers, Step(p), ~Erase(p), ~op[p].optOut,
         Row(p).known, ~Row(p).optedOut
  PROVE  donors'[op[p].donor].known /\ ~donors'[op[p].donor].optedOut
<1>1. /\ op[p] \in Ops /\ op[p].donor \in Donors /\ donors \in [Donors -> DonorRows]
      /\ Row(p) \in DonorRows /\ op[p].optOut = FALSE /\ op[p].at \in 0..MaxTime
  BY Own DEF Ops
<1>2. /\ Upserted(Row(p), FALSE).known /\ Upserted(Row(p), FALSE).optedOut = FALSE
      /\ Flagged(Row(p), FALSE).known /\ Flagged(Row(p), FALSE).optedOut = FALSE
      /\ Contacted(Row(p), op[p].at).known
      /\ Contacted(Row(p), op[p].at).optedOut = Row(p).optedOut
  BY <1>1, UpsertedFields, FlaggedFields, ContactedFields
<1>3. CASE Upsert(p)
  BY <1>1, <1>2, <1>3 DEF Upsert, Row
<1>4. CASE UpsertFirst(p) \/ Create(p)
  BY <1>1, <1>2, <1>4 DEF UpsertFirst, Create, Row
<1>5. CASE Flag(p)
  BY <1>1, <1>2, <1>5 DEF Flag, Row
<1>6. CASE Seal(p)
  BY <1>1, <1>2, <1>6 DEF Seal, Row
<1>7. CASE Log(p)
  BY <1>1, <1>2, <1>7 DEF Log, Row
<1>8. CASE Select(p) \/ Find(p) \/ Check(p) \/ Mail(p) \/ InsertFails(p) \/ Insert(p)
  BY <1>8 DEF Select, Find, Check, Mail, InsertFails, Insert, Row
<1>9. QED BY <1>3, <1>4, <1>5, <1>6, <1>7, <1>8 DEF Step

LEMMA StepKeepsStatus ==
  ASSUME Core, NEW p \in Callers, Step(p), ~Erase(p), NEW c \in Channels
  PROVE  \/ consent'[op[p].donor][c] = consent[op[p].donor][c]
         \/ /\ c = op[p].channel /\ At(p, "insert")
            /\ consent'[op[p].donor][c] =
                 IF op[p].kind = "optOut" THEN "withdrawn" ELSE "granted"
<1>1. /\ op[p].donor \in Donors /\ op[p].channel \in Channels
      /\ consent \in [Donors -> [Channels -> Given]]
  BY Own
<1>2. CASE Insert(p)
  <2> DEFINE status == IF op[p].kind = "optOut" THEN "withdrawn" ELSE "granted"
  <2>1. /\ consent' = [consent EXCEPT ![op[p].donor][op[p].channel] = status]
        /\ At(p, "insert")
    BY <1>2 DEF Insert
  <2> HIDE DEF status
  <2>2. QED BY <1>1, <2>1 DEF status
<1>3. CASE ~Insert(p)
  BY <1>3 DEF Step, Upsert, UpsertFirst, Create, Flag, Select, Find, Check, Mail,
     InsertFails, Log, Seal
<1>4. QED BY <1>2, <1>3

LEMMA NoOpInactive == \A d : ~Active(NoOp, d)
BY NoOpTyped DEF Active

\* A request that the step does not settle stands as before.
LEMMA StepKeepsStanding ==
  ASSUME Core, AllStand, NEW p \in Callers, Step(p), NEW d \in Donors, NEW c \in Channels,
         request'[d][c] = request[d][c]
  PROVE  Stands(d, c)'
<1>1. /\ op[p] \in Ops /\ OpOK(op[p]) /\ op[p].step # "idle" /\ Stands(d, c)
      /\ op'[p] = NoOp \/ Continues(op[p], op'[p])
      /\ \A q \in Callers : q # p => op'[q] = op[q]
  BY StepShape, Own DEF AllStand
<1>2. CASE d # op[p].donor
  <2>1. /\ donors'[d] = donors[d] /\ consent'[d] = consent[d]
    BY <1>2, StepOwnDonor DEF OwnDonor
  <2>2. ASSUME NEW q \in Callers, Active(op'[q], d)
        PROVE  Active(op[q], d) /\ op'[q] = op[q]
    BY <1>1, <1>2, <2>2, NoOpInactive DEF Active, Continues
  <2>3. QED BY <1>1, <2>1, <2>2 DEF Stands
<1>3. CASE d = op[p].donor /\ request[d][c] = "out"
  <2>1. consent[d][c] = "withdrawn" /\ Mild(op[p], c)
    BY <1>1, <1>3 DEF Stands, Active
  <2>2. ~Erase(p)
    BY <1>1, <2>1 DEF Erase, At, OpOK, Mild, Ops, Kinds
  <2>3. consent'[d][c] = "withdrawn"
    <3>1. c = op[p].channel /\ At(p, "insert") => op[p].kind = "optOut"
      BY <2>1, InsertKinds DEF Mild, Checked, Sending, At
    <3>2. QED BY <1>3, <2>1, <2>2, <3>1, StepKeepsStatus
  <2>4. Active(op'[p], d) => Mild(op'[p], c)
    <3>1. SUFFICES ASSUME Continues(op[p], op'[p]) PROVE Mild(op'[p], c)
      BY <1>1, NoOpInactive
    <3>2. Checked(op'[p]) /\ op[p].channel = c => Checked(op[p])
      BY <1>3, <2>1, StepTime
    <3>3. QED BY <2>1, <3>1, <3>2 DEF Mild, Continues
  <2>5. QED BY <1>1, <1>3, <2>3, <2>4 DEF Stands
<1>4. CASE d = op[p].donor /\ request[d][c] = "in"
  <2>1. /\ consent[d][c] = "granted" /\ Row(p).known /\ ~Row(p).optedOut
        /\ Gentle(op[p], c)
    BY <1>1, <1>4 DEF Stands, Active, Row
  <2>2. ~Erase(p) /\ ~op[p].optOut /\ op[p].kind # "optOut"
    BY <1>1, <2>1 DEF Erase, At, OpOK, Gentle, Ops, Kinds
  <2>3. consent'[d][c] = "granted"
    BY <1>4, <2>1, <2>2, StepKeepsStatus
  <2>4. donors'[d].known /\ ~donors'[d].optedOut
    BY <1>4, <2>1, <2>2, StepKeepsRow
  <2>5. Active(op'[p], d) => Gentle(op'[p], c)
    BY <1>1, <2>1, NoOpInactive DEF Gentle, Continues
  <2>6. QED BY <1>1, <1>4, <2>3, <2>4, <2>5 DEF Stands
<1>5. CASE request[d][c] \notin {"in", "out"}
  BY <1>5 DEF Stands
<1>6. QED BY <1>2, <1>3, <1>4, <1>5

\* The request that a step settles.
LEMMA SettledStands ==
  ASSUME Core, AllStand, NEW p \in Callers, Step(p), NEW asked \in {"in", "out"},
         request' = Settled(p, asked), Finish(p),
         op[p].alone => LET d == op[p].donor  c == op[p].channel IN
           IF asked = "out" THEN consent'[d][c] = "withdrawn"
           ELSE consent'[d][c] = "granted" /\ donors'[d].known /\ ~donors'[d].optedOut
  PROVE  AllStand'
<1> DEFINE d == op[p].donor
           c == op[p].channel
           v == IF op[p].alone THEN asked ELSE "unclear"
<1>1. /\ d \in Donors /\ c \in Channels /\ op \in [Callers -> Ops]
      /\ request \in [Donors -> [Channels -> Asked]]
  BY Own, TypeIs DEF Core
<1>2. request' = [request EXCEPT ![d][c] = v]
  BY DEF Settled
<1> HIDE DEF v
<1>3. /\ request'[d][c] = v
      /\ \A e \in Donors, x \in Channels :
           ~(e = d /\ x = c) => request'[e][x] = request[e][x]
  BY <1>1, <1>2
<1>4. ASSUME NEW e \in Donors, NEW x \in Channels, e = d, x = c
      PROVE  Stands(e, x)'
  <2>1. CASE op[p].alone
    <3>1. ASSUME NEW q \in Callers PROVE ~Active(op'[q], e)
      <4>1. CASE q = p
        BY <1>1, <4>1, NoOpInactive DEF Finish
      <4>2. CASE q # p
        BY <1>4, <2>1, <4>2, StepShape DEF Active, Core, Apart, Overlap
      <4>3. QED BY <4>1, <4>2
    <3>2. request'[e][x] = asked
      BY <1>3, <1>4, <2>1 DEF v
    <3>3. IF asked = "out" THEN consent'[e][x] = "withdrawn"
          ELSE consent'[e][x] = "granted" /\ donors'[e].known /\ ~donors'[e].optedOut
      BY <1>4, <2>1
    <3>4. QED BY <3>1, <3>2, <3>3 DEF Stands
  <2>2. CASE ~op[p].alone
    <3>1. request'[e][x] = "unclear"
      BY <1>3, <1>4, <2>2 DEF v
    <3>2. QED BY <3>1 DEF Stands
  <2>3. QED BY <2>1, <2>2
<1>5. ASSUME NEW e \in Donors, NEW x \in Channels, ~(e = d /\ x = c)
      PROVE  Stands(e, x)'
  <2>1. request'[e][x] = request[e][x]
    BY <1>3, <1>5
  <2>2. QED BY <2>1, StepKeepsStanding
<1>6. ASSUME NEW e \in Donors, NEW x \in Channels PROVE Stands(e, x)'
  BY <1>4, <1>5
<1>7. QED BY <1>6 DEF AllStand

LEMMA StepKeepsAll ==
  ASSUME Core, AllStand, NEW p \in Callers, Step(p) PROVE AllStand'
<1>1. /\ op[p] \in Ops /\ OpOK(op[p]) /\ View(p) /\ op[p].donor \in Donors
      /\ op[p].channel \in Channels /\ donors \in [Donors -> DonorRows]
      /\ Row(p) \in DonorRows /\ consent \in [Donors -> [Channels -> Given]]
  BY Own
<1>2. CASE request' = request
  <2>1. ASSUME NEW e \in Donors, NEW x \in Channels PROVE Stands(e, x)'
    BY <1>2, StepKeepsStanding
  <2>2. QED BY <2>1 DEF AllStand
<1>3. CASE Seal(p)
  <2> DEFINE asked == IF op[p].optOut THEN "out" ELSE "in"
  <2>1. /\ op[p].step = "seal" /\ Finish(p) /\ consent' = consent
        /\ donors'[op[p].donor] = Flagged(Row(p), op[p].optOut)
        /\ request' = Settled(p, asked)
    BY <1>1, <1>3 DEF Seal, At, Row
  <2>2. op[p].optOut \in BOOLEAN
    BY <1>1 DEF Ops
  <2>3. asked \in {"in", "out"} /\ (asked = "out" <=> op[p].optOut)
    OBVIOUS
  <2> HIDE DEF asked
  <2>4. ASSUME op[p].alone, op[p].optOut
        PROVE  consent'[op[p].donor][op[p].channel] = "withdrawn"
    BY <1>1, <2>1, <2>4 DEF View, Relies
  <2>5. ASSUME op[p].alone, ~op[p].optOut
        PROVE  /\ consent'[op[p].donor][op[p].channel] = "granted"
               /\ donors'[op[p].donor].known /\ ~donors'[op[p].donor].optedOut
    <3>1. /\ consent[op[p].donor][op[p].channel] = "granted" /\ Row(p).known
      BY <1>1, <2>1, <2>5 DEF View, Relies, Row
    <3>2. QED BY <1>1, <2>1, <2>2, <2>5, <3>1, FlaggedFields
  <2>6. QED BY <2>1, <2>3, <2>4, <2>5, SettledStands
<1>4. CASE Insert(p) /\ request' # request
  <2>1. op[p].kind = "consent" /\ Finish(p) /\ request' = Settled(p, "in")
    BY <1>4, InsertKinds DEF Insert
  <2>2. /\ op[p].step = "insert" /\ donors' = donors
        /\ consent'[op[p].donor][op[p].channel] = "granted"
    BY <1>1, <1>4, <2>1 DEF Insert, At
  <2>3. op[p].alone => Row(p).known /\ ~Row(p).optedOut
    BY <1>1, <2>1, <2>2 DEF View, Relies, Row
  <2>4. QED BY <2>1, <2>2, <2>3, SettledStands DEF Row
<1>5. CASE ~Seal(p) /\ ~Insert(p)
  <2>1. request' = request
    BY <1>5 DEF Step, Upsert, UpsertFirst, Create, Flag, Select, Find, Check, Mail,
       InsertFails, Log, Erase
  <2>2. QED BY <1>2, <2>1
<1>6. QED BY <1>2, <1>3, <1>4, <1>5

LEMMA BeginKeepsAll ==
  ASSUME Core, AllStand, NEW p \in Callers, Begin(p) PROVE AllStand'
<1>1. PICK n : Begun(p, n)
  BY BeginShape
<1>2. UNCHANGED <<donors, consent, sentAt, erased, now, granted>>
  BY BeginShape
<1>3. n \in Ops /\ request' = Unsettled(n) /\ op'[p] = n /\ ~Checked(n)
  BY <1>1 DEF Begun, OpOK
<1>4. ASSUME NEW d \in Donors, NEW c \in Channels PROVE Stands(d, c)'
  <2>1. /\ request'[d][c] \in {request[d][c], "unclear"}
        /\ n.donor = d /\ n.kind = "erase" => request'[d][c] = "unclear"
        /\ n.donor = d /\ n.kind \in {"consent", "restore"} /\ n.channel = c =>
             request'[d][c] = "unclear"
        /\ n.donor = d /\ n.kind \in {"edit", "optOut"} => request'[d][c] # "in"
    BY <1>3, UnsettledAt DEF Core
  <2>2. Stands(d, c)
    BY DEF AllStand
  <2>3. ASSUME NEW q \in Callers, q # p, Active(op'[q], d)
        PROVE  /\ Active(op[q], d)
               /\ Mild(op[q], c) => Mild(op'[q], c)
               /\ Gentle(op[q], c) => Gentle(op'[q], c)
    BY <1>1, <2>3 DEF Begun, Same, Active, Mild, Gentle, Checked, Sending
  <2>4. Active(n, d) =>
          /\ request'[d][c] = "out" => Mild(n, c)
          /\ request'[d][c] = "in" => Gentle(n, c)
    BY <1>3, <2>1 DEF Active, Mild, Gentle
  <2>5. CASE request'[d][c] = "out"
    BY <1>2, <1>3, <2>1, <2>2, <2>3, <2>4, <2>5 DEF Stands
  <2>6. CASE request'[d][c] = "in"
    BY <1>2, <1>3, <2>1, <2>2, <2>3, <2>4, <2>6 DEF Stands
  <2>7. CASE request'[d][c] \notin {"in", "out"}
    BY <2>7 DEF Stands
  <2>8. QED BY <2>5, <2>6, <2>7
<1>5. QED BY <1>4 DEF AllStand

LEMMA NextKeepsAll ==
  ASSUME Core, AllStand, [Next]_vars PROVE Core' /\ AllStand'
<1>1. CASE Tick
  BY <1>1, TickKeepsCore DEF Tick, AllStand, Stands
<1>2. ASSUME NEW p \in Callers, Crash(p) PROVE Core' /\ AllStand'
  <2>1. UNCHANGED <<donors, consent, request>> /\ op' = [op EXCEPT ![p] = NoOp]
    BY <1>2 DEF Crash, Finish
  <2>2. op'[p] = NoOp /\ \A q \in Callers : q # p => op'[q] = op[q]
    BY <2>1, Own
  <2>3. AllStand'
    BY <2>1, <2>2, NoOpInactive DEF AllStand, Stands
  <2>4. QED BY <1>2, <2>3, CrashKeepsCore
<1>3. CASE UNCHANGED vars
  BY <1>3, StutterKeepsCore DEF vars, AllStand, Stands
<1>4. QED BY <1>1, <1>2, <1>3, StepKeepsCore, StepKeepsAll, BeginKeepsCore,
             BeginKeepsAll DEF Next

\* What an opt-out or a consent asked for stays in force, whoever edits, sends to
\* or consents for the donor afterwards, until a request that changes it.
THEOREM RequestsStand == Spec => []RequestsStick
<1>1. Init => Core /\ AllStand
  BY InitCore DEF Init, AllStand, Stands
<1>2. Core /\ AllStand /\ [Next]_vars => Core' /\ AllStand'
  BY NextKeepsAll
<1>3. Core /\ AllStand => RequestsStick
  <2> SUFFICES ASSUME Core, AllStand, NEW d \in Donors, NEW c \in Channels
               PROVE  /\ request[d][c] = "out" =>
                           /\ consent[d][c] = "withdrawn"
                           /\ \A p \in Callers : ~Cleared(p, d, c)
                      /\ request[d][c] = "in" =>
                           consent[d][c] = "granted" /\ donors[d].known
                           /\ ~donors[d].optedOut
    BY DEF RequestsStick
  <2>1. Stands(d, c)
    BY DEF AllStand
  <2>2. ASSUME NEW p \in Callers, Cleared(p, d, c)
        PROVE  Active(op[p], d) /\ ~Mild(op[p], c)
    BY <2>2 DEF Cleared, Active, Mild, Checked, Sending
  <2>3. QED BY <2>1, <2>2 DEF Stands
<1>4. QED BY <1>1, <1>2, <1>3, PTL DEF Spec
=============================================================================
