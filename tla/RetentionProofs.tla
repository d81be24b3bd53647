-------------------------- MODULE RetentionProofs --------------------------
(***************************************************************************)
(* The properties of Applications and Retention for any callers, rows,     *)
(* statuses, policy and bounds.  The invariant: the types; what each       *)
(* operation is doing (OpOK) and which of them overlap (Apart); what one   *)
(* that nothing overlaps may rely on (View); that a listed document, or    *)
(* one being drawn, has its file (Filed); that a run has read all that it  *)
(* will still find to delete of the tables it has been through (Kept); and *)
(* that its archive file holds what it read (Written).                     *)
(***************************************************************************)
EXTENDS Retention, TLAPS

-----------------------------------------------------------------------------
(* The types. *)

Ops == [step : Steps \cup {"idle"}, kind : Kinds, opp : Opps,
        status : Statuses, monitored : BOOLEAN,
        attempt : 1..(MaxRetries + 1), alone : BOOLEAN]
OppRows == [status : Statuses \cup {"none"}, at : 0..MaxTime]
AppRows == [status : Statuses \cup {"none"}, monitored : BOOLEAN,
            referenced : BOOLEAN, browser : BOOLEAN, at : 0..MaxTime]
Attempts == [succeeded : BOOLEAN, number : 1..MaxRetries, at : 0..MaxTime]
MailRows == [state : {"none", "stored", "deleted"}, at : 0..MaxTime,
             events : Nat, late : Nat]
TaskRows == [state : {"open", "done", "deleted"}, at : 0..MaxTime]
DocRows == [state : {"none", "stored", "deleted"}, at : 0..MaxTime,
            path : 0..MaxTime]
ArchiveRows ==
  ({"opportunity", "attempt"} \X Opps \X (0..MaxTime))
  \cup ({"mail"} \X Mails \X Nat) \cup ({"task"} \X Tasks \X (0..MaxTime))
  \cup ({"document"} \X Docs \X (0..MaxTime))
ArchiveFiles == [rows : SUBSET ArchiveRows, by : SUBSET Callers]
Works == [asOf : 0..MaxTime, rows : SUBSET ArchiveRows, mails : SUBSET Mails,
          paths : SUBSET (0..MaxTime), drawing : SUBSET Docs,
          path : 0..MaxTime]

RetentionTypeOK ==
  /\ mails \in [Mails -> MailRows]
  /\ tasks \in [Tasks -> TaskRows]
  /\ docs \in [Docs -> DocRows]
  /\ files \subseteq 0..MaxTime
  /\ archive \in [0..MaxTime -> ArchiveFiles]
  /\ work \in [Callers -> Works]

-----------------------------------------------------------------------------
(* The operations. *)

\* What a step tells of an operation n.
OpOK(n) ==
  /\ n \in Ops
  /\ n.step = "idle" => n = NoOp
  /\ n.kind = "retain" <=> n.step \in RetentionSteps
  /\ n.step \in {"portal", "logFailure", "logSuccess", "lookAgain"} =>
       n.kind = "browser"
  /\ n.step = "record" => n.kind \in {"submit", "browser"}
  /\ n.step = "ask" => n.kind = "pollPortal"
  /\ n.step = "apply" => n.kind \in {"update", "poll", "pollPortal"}
  /\ n.step \in {"look", "portal", "logFailure", "logSuccess"} =>
       n.attempt <= MaxRetries
  /\ n.step = "look" => n.attempt = 1
  /\ n.kind = "browser" /\ n.step \in {"lookAgain", "record"} =>
       n.status \in {"submitted", "pending"}
  /\ n.kind = "browser" /\ n.status = "submitted" =>
       n.step \in {"lookAgain", "record"}

Overlap(m, n) ==
  /\ m.step # "idle" /\ n.step # "idle"
  /\ m.opp = n.opp \/ "retain" \in {m.kind, n.kind}

\* Operations that overlap know it.
Apart == \A p, q \in Callers : p # q /\ Overlap(op[p], op[q]) => ~op[p].alone

\* What an operation that is alone has read of its rows still holds.
Relies(n, opp, app) ==
  n.alone =>
    /\ n.kind \in {"submit", "browser"} /\ n.step \notin {"idle", "look"} =>
         opp.status # "none" /\ app.status = "none"
    /\ n.kind = "poll" /\ n.step = "apply" =>
         n.status = LocalStatus(app.status)

View(p) == Relies(op[p], opps[op[p].opp], apps[op[p].opp])

Core ==
  /\ TypeOK
  /\ \A p \in Callers : OpOK(op[p]) /\ View(p)
  /\ Apart
  /\ StatusesAgree

-----------------------------------------------------------------------------
(* The constants, and the records the operations begin with. *)

LEMMA Constant ==
  /\ MaxRetries \in Nat \ {0} /\ MaxTime \in Nat /\ Final \subseteq Given
  /\ "none" \notin Statuses /\ Given \subseteq Statuses
  /\ {"new", "submitted", "pending", "in_review"} \subseteq Statuses
BY ApplicationsAssumption DEF ApplicationsAssumption, Statuses

LEMMA NoOpTyped == NoOp \in Ops /\ OpOK(NoOp) /\ NoOp.step = "idle"
<1>1. (CHOOSE o \in Opps : TRUE) \in Opps
  BY ApplicationsAssumption DEF ApplicationsAssumption
<1>2. NoOp \in Ops
  BY <1>1, Constant DEF NoOp, Ops, Steps, RetentionSteps, Kinds
<1>3. QED BY <1>2 DEF OpOK, NoOp, RetentionSteps

\* A field of an operation at a time.
LEMMA OpFields ==
  ASSUME NEW n \in Ops
  PROVE  /\ \A x \in Steps : [n EXCEPT !.step = x] \in Ops
         /\ \A x \in Statuses : [n EXCEPT !.status = x] \in Ops
         /\ \A x \in BOOLEAN : [n EXCEPT !.monitored = x] \in Ops
         /\ \A x \in BOOLEAN : [n EXCEPT !.alone = x] \in Ops
         /\ \A x \in 1..(MaxRetries + 1) : [n EXCEPT !.attempt = x] \in Ops
BY DEF Ops

-----------------------------------------------------------------------------
(* The steps of the operations of Applications. *)

\* A step makes p's operation n, or ends it; of an operation that goes on, n
\* has the kind, the opportunity and the overlap.
Continues(m, n) ==
  /\ n.kind = m.kind /\ n.opp = m.opp /\ n.alone = m.alone
  /\ n.step \notin ({"idle"} \cup RetentionSteps)

Moves(p) ==
  \E n : /\ op' = [op EXCEPT ![p] = n]
         /\ OpOK(n)
         /\ n = NoOp \/ Continues(op[p], n)
         /\ Relies(n, opps'[n.opp], apps'[n.opp])

\* It touches the rows of its own opportunity only.
OwnRows(p) ==
  \A o \in Opps : o # op[p].opp => opps'[o] = opps[o] /\ apps'[o] = apps[o]

LEMMA EndMoves ==
  ASSUME Core, NEW p \in Callers, Finish(p) PROVE Moves(p)
<1>1. Relies(NoOp, opps'[NoOp.opp], apps'[NoOp.opp])
  BY DEF Relies, NoOp
<1>2. QED BY <1>1, NoOpTyped DEF Moves, Finish

LEMMA GotoMoves ==
  ASSUME Core, NEW p \in Callers, NEW x \in Steps \ RetentionSteps,
         Goto(p, x), OpOK([op[p] EXCEPT !.step = x]),
         Relies([op[p] EXCEPT !.step = x], opps'[op[p].opp], apps'[op[p].opp])
  PROVE  Moves(p)
<1>1. op[p] \in Ops /\ op \in [Callers -> Ops]
  BY DEF Core, TypeOK, Ops
<1> DEFINE n == [op[p] EXCEPT !.step = x]
<1>2. op' = [op EXCEPT ![p] = n]
  BY <1>1 DEF Goto, Ops
<1>3. Continues(op[p], n)
  BY <1>1 DEF Continues, Ops, Steps, RetentionSteps
<1>4. n.opp = op[p].opp
  BY <1>1 DEF Ops
<1> HIDE DEF n
<1>5. Relies(n, opps'[n.opp], apps'[n.opp])
  BY <1>4 DEF n
<1>6. OpOK(n)
  BY DEF n
<1>7. QED BY <1>2, <1>3, <1>5, <1>6 DEF Moves

LEMMA LookToSubmitMoves ==
  ASSUME Core, NEW p \in Callers, LookToSubmit(p)
  PROVE  Moves(p)
<1>1. CASE Finish(p)
  BY <1>1, EndMoves
<1>2. CASE Goto(p, AfterLook(p)) /\ Stored(op[p].opp) /\ ~Applied(op[p].opp)
  <2> DEFINE x == AfterLook(p)
             n == [op[p] EXCEPT !.step = x]
  <2>1. op[p] \in Ops /\ OpOK(op[p]) /\ op[p].step = "look"
        /\ op[p].kind \in {"submit", "browser"}
    BY DEF Core, OpOK, LookToSubmit, At
  <2>2. x \in Steps \ RetentionSteps
    BY DEF AfterLook, Steps, RetentionSteps
  <2>3. \/ x = "portal" /\ op[p].kind = "browser"
        \/ x = "record" /\ op[p].kind = "submit"
    BY <2>1 DEF AfterLook
  <2>4. /\ n \in Ops /\ n.step = x /\ n.kind = op[p].kind /\ n.opp = op[p].opp
        /\ n.status = op[p].status /\ n.attempt = op[p].attempt
        /\ n.alone = op[p].alone
    BY <2>1, <2>2 DEF Ops
  <2> HIDE DEF x, n
  <2>5. OpOK(n)
    BY <2>1, <2>3, <2>4 DEF OpOK, RetentionSteps
  <2>6. opps' = opps /\ apps' = apps
    BY DEF LookToSubmit
  <2>7. Relies(n, opps'[op[p].opp], apps'[op[p].opp])
    BY <1>2, <2>1, <2>4, <2>6 DEF Relies, Stored, Applied
  <2>8. QED BY <1>2, <2>2, <2>5, <2>7, GotoMoves DEF x, n
<1>3. QED BY <1>1, <1>2 DEF LookToSubmit

LEMMA LookAgainMoves ==
  ASSUME Core, NEW p \in Callers, LookAgain(p)
  PROVE  Moves(p)
<1>1. CASE Finish(p)
  BY <1>1, EndMoves
<1>2. CASE Goto(p, "record") /\ Stored(op[p].opp) /\ ~Applied(op[p].opp)
  <2> DEFINE n == [op[p] EXCEPT !.step = "record"]
  <2>1. op[p] \in Ops /\ OpOK(op[p]) /\ op[p].step = "lookAgain"
    BY DEF Core, OpOK, LookAgain, At
  <2>2. "record" \in Steps \ RetentionSteps
    BY DEF Steps, RetentionSteps
  <2>3. /\ n \in Ops /\ n.step = "record" /\ n.kind = op[p].kind
        /\ n.opp = op[p].opp /\ n.status = op[p].status
        /\ n.alone = op[p].alone
    BY <2>1, <2>2 DEF Ops
  <2> HIDE DEF n
  <2>4. OpOK(n)
    BY <2>1, <2>3 DEF OpOK, RetentionSteps
  <2>5. opps' = opps /\ apps' = apps
    BY DEF LookAgain
  <2>6. Relies(n, opps'[op[p].opp], apps'[op[p].opp])
    BY <1>2, <2>1, <2>3, <2>5 DEF Relies, Stored, Applied
  <2>7. QED BY <1>2, <2>2, <2>4, <2>6, GotoMoves DEF n
<1>3. QED BY <1>1, <1>2 DEF LookAgain

LEMMA PortalMoves ==
  ASSUME Core, NEW p \in Callers, Accept(p) \/ Raise(p)
  PROVE  Moves(p)
<1>1. PICK x \in {"logSuccess", "logFailure"} : Goto(p, x)
  BY DEF Accept, Raise
<1> DEFINE n == [op[p] EXCEPT !.step = x]
<1>2. op[p] \in Ops /\ OpOK(op[p]) /\ op[p].step = "portal" /\ View(p)
  BY DEF Core, OpOK, Accept, Raise, At
<1>3. x \in Steps \ RetentionSteps
  BY DEF Steps, RetentionSteps
<1>4. /\ n \in Ops /\ n.step = x /\ n.kind = op[p].kind
      /\ n.opp = op[p].opp /\ n.status = op[p].status
      /\ n.attempt = op[p].attempt /\ n.alone = op[p].alone
  BY <1>2, <1>3 DEF Ops
<1> HIDE DEF n
<1>5. OpOK(n)
  BY <1>2, <1>4 DEF OpOK, RetentionSteps
<1>6. opps' = opps /\ apps' = apps
  BY DEF Accept, Raise
<1>7. Relies(n, opps'[op[p].opp], apps'[op[p].opp])
  BY <1>2, <1>4, <1>6 DEF View, Relies, OpOK
<1>8. QED BY <1>1, <1>3, <1>5, <1>7, GotoMoves DEF n

LEMMA LogSuccessMoves ==
  ASSUME Core, NEW p \in Callers, LogSuccess(p)
  PROVE  Moves(p)
<1> DEFINE m == [op[p] EXCEPT !.status = "submitted"]
           n == [m EXCEPT !.step = "lookAgain"]
<1>1. op[p] \in Ops /\ OpOK(op[p]) /\ op[p].step = "logSuccess" /\ View(p)
      /\ op \in [Callers -> Ops]
  BY DEF Core, TypeOK, Ops, OpOK, LogSuccess, At
<1>2. op' = [op EXCEPT ![p] = n]
  BY <1>1 DEF LogSuccess, Ops
<1>3. /\ m \in Ops /\ m.status = "submitted" /\ m.kind = op[p].kind
      /\ m.opp = op[p].opp /\ m.alone = op[p].alone
  BY <1>1, Constant DEF Ops
<1> HIDE DEF m
<1>4. /\ n \in Ops /\ n.step = "lookAgain" /\ n.kind = op[p].kind
      /\ n.opp = op[p].opp /\ n.alone = op[p].alone /\ n.status = "submitted"
  BY <1>3 DEF Ops, Steps, RetentionSteps
<1> HIDE DEF n
<1>5. OpOK(n)
  BY <1>1, <1>4 DEF OpOK, RetentionSteps
<1>6. opps' = opps /\ apps' = apps
  BY DEF LogSuccess
<1>7. Relies(n, opps'[n.opp], apps'[n.opp])
  BY <1>1, <1>4, <1>6 DEF View, Relies, OpOK
<1>8. Continues(op[p], n)
  BY <1>4 DEF Continues, RetentionSteps
<1>9. QED BY <1>2, <1>5, <1>7, <1>8 DEF Moves

LEMMA LogFailureMoves ==
  ASSUME Core, NEW p \in Callers, LogFailure(p)
  PROVE  Moves(p)
<1> DEFINE next == op[p].attempt + 1
           status == IF next > MaxRetries THEN "pending" ELSE op[p].status
           step == IF next > MaxRetries THEN "lookAgain" ELSE "portal"
           l == [op[p] EXCEPT !.attempt = next]
           m == [l EXCEPT !.status = status]
           n == [m EXCEPT !.step = step]
<1>1. op[p] \in Ops /\ OpOK(op[p]) /\ op[p].step = "logFailure" /\ View(p)
      /\ op \in [Callers -> Ops]
  BY DEF Core, TypeOK, Ops, OpOK, LogFailure, At
<1>2. op' = [op EXCEPT ![p] = n]
  BY <1>1 DEF LogFailure, Ops
<1>3. op[p].attempt \in Nat \ {0} /\ op[p].attempt <= MaxRetries
  BY <1>1, Constant DEF OpOK, Ops
<1>4. next \in 1..(MaxRetries + 1)
  BY <1>3, Constant
<1>5. /\ l \in Ops /\ l.attempt = next /\ l.kind = op[p].kind
      /\ l.opp = op[p].opp /\ l.alone = op[p].alone
  BY <1>1, <1>4 DEF Ops
<1> HIDE DEF l
<1>6. status \in Statuses
  BY <1>1, Constant DEF Ops
<1>7. status = "pending" \/ status = op[p].status
  OBVIOUS
<1>8. /\ step \in Steps
      /\ \/ step = "lookAgain" /\ status = "pending"
         \/ step = "portal" /\ next <= MaxRetries
  BY <1>4, Constant DEF Steps, RetentionSteps
<1> HIDE DEF next, status, step
<1>9. /\ m \in Ops /\ m.status = status /\ m.kind = op[p].kind
      /\ m.opp = op[p].opp /\ m.alone = op[p].alone /\ m.attempt = next
  BY <1>5, <1>6 DEF Ops
<1> HIDE DEF m
<1>10. /\ n \in Ops /\ n.step = step /\ n.kind = op[p].kind
       /\ n.opp = op[p].opp /\ n.alone = op[p].alone
       /\ n.status = status /\ n.attempt = next
  BY <1>8, <1>9 DEF Ops
<1> HIDE DEF n
<1>11. OpOK(n)
  BY <1>1, <1>7, <1>8, <1>10 DEF OpOK, RetentionSteps
<1>12. opps' = opps /\ apps' = apps
  BY DEF LogFailure
<1>13. Relies(n, opps'[n.opp], apps'[n.opp])
  BY <1>1, <1>10, <1>12 DEF View, Relies, OpOK
<1>14. Continues(op[p], n)
  BY <1>8, <1>10 DEF Continues, RetentionSteps
<1>15. QED BY <1>2, <1>11, <1>13, <1>14 DEF Moves

LEMMA LocalStatusTyped ==
  ASSUME NEW status \in Statuses PROVE LocalStatus(status) \in Statuses
BY Constant DEF LocalStatus

LEMMA LookToPollMoves ==
  ASSUME Core, NEW p \in Callers, LookToPoll(p)
  PROVE  Moves(p)
<1> DEFINE a == apps[op[p].opp]
           found == LocalStatus(a.status)
<1>1. op[p] \in Ops /\ OpOK(op[p]) /\ op[p].step = "look"
      /\ op[p].kind \in {"poll", "pollPortal"} /\ op \in [Callers -> Ops]
      /\ opps' = opps /\ apps' = apps
  BY DEF Core, TypeOK, Ops, OpOK, LookToPoll, At
<1>2. CASE Finish(p)
  BY <1>2, EndMoves
<1>3. CASE /\ Applied(op[p].opp) /\ op[p].kind = "pollPortal"
           /\ op' = [op EXCEPT ![p].status = a.status,
                               ![p].monitored = a.monitored, ![p].step = "ask"]
  <2> DEFINE l == [op[p] EXCEPT !.status = a.status]
             m == [l EXCEPT !.monitored = a.monitored]
             n == [m EXCEPT !.step = "ask"]
  <2>1. op' = [op EXCEPT ![p] = n]
    BY <1>1, <1>3 DEF Ops
  <2>2. a.status \in Statuses /\ a.monitored \in BOOLEAN
    BY <1>1, <1>3 DEF Core, TypeOK, Applied, Ops
  <2>3. /\ l \in Ops /\ l.kind = op[p].kind /\ l.opp = op[p].opp
        /\ l.alone = op[p].alone
    BY <1>1, <2>2 DEF Ops
  <2> HIDE DEF l
  <2>4. /\ m \in Ops /\ m.kind = op[p].kind /\ m.opp = op[p].opp
        /\ m.alone = op[p].alone
    BY <2>2, <2>3 DEF Ops
  <2> HIDE DEF m
  <2>5. /\ n \in Ops /\ n.step = "ask" /\ n.kind = op[p].kind
        /\ n.opp = op[p].opp /\ n.alone = op[p].alone
    BY <2>4 DEF Ops, Steps, RetentionSteps
  <2> HIDE DEF n
  <2>6. OpOK(n) /\ Relies(n, opps'[n.opp], apps'[n.opp]) /\ Continues(op[p], n)
    BY <1>3, <2>5 DEF OpOK, Relies, Continues, RetentionSteps
  <2>7. QED BY <2>1, <2>6 DEF Moves
<1>4. CASE /\ Applied(op[p].opp) /\ op[p].kind # "pollPortal"
           /\ op' = [op EXCEPT ![p].status = found, ![p].monitored = TRUE,
                              ![p].step = "apply"]
  <2> DEFINE l == [op[p] EXCEPT !.status = found]
             m == [l EXCEPT !.monitored = TRUE]
             n == [m EXCEPT !.step = "apply"]
  <2>1. op' = [op EXCEPT ![p] = n]
    BY <1>1, <1>4 DEF Ops
  <2>2. a.status \in Statuses
    BY <1>1, <1>4 DEF Core, TypeOK, Applied, Ops
  <2>3. found \in Statuses
    BY <2>2, LocalStatusTyped
  <2>4. /\ l \in Ops /\ l.kind = op[p].kind /\ l.opp = op[p].opp
        /\ l.alone = op[p].alone /\ l.status = found
    BY <1>1, <2>3 DEF Ops
  <2> HIDE DEF l
  <2>5. /\ m \in Ops /\ m.kind = op[p].kind /\ m.opp = op[p].opp
        /\ m.alone = op[p].alone /\ m.status = found
    BY <2>4 DEF Ops
  <2> HIDE DEF m
  <2>6. /\ n \in Ops /\ n.step = "apply" /\ n.kind = op[p].kind
        /\ n.opp = op[p].opp /\ n.alone = op[p].alone /\ n.status = found
    BY <2>5 DEF Ops, Steps, RetentionSteps
  <2> HIDE DEF n
  <2>7. OpOK(n) /\ Relies(n, opps'[n.opp], apps'[n.opp]) /\ Continues(op[p], n)
    BY <1>1, <1>4, <2>6 DEF OpOK, Relies, Continues, RetentionSteps
  <2>8. QED BY <2>1, <2>7 DEF Moves
<1>5. QED BY <1>2, <1>3, <1>4 DEF LookToPoll

LEMMA AskMoves ==
  ASSUME Core, NEW p \in Callers, Ask(p)
  PROVE  Moves(p)
<1>1. CASE Finish(p)
  BY <1>1, EndMoves
<1>2. ASSUME NEW status \in Given \cup {op[p].status},
             NEW monitored \in {FALSE, op[p].monitored},
             op' = [op EXCEPT ![p].status = status, ![p].monitored = monitored,
                              ![p].step = "apply"]
      PROVE  Moves(p)
  <2> DEFINE l == [op[p] EXCEPT !.status = status]
             m == [l EXCEPT !.monitored = monitored]
             n == [m EXCEPT !.step = "apply"]
  <2>1. op[p] \in Ops /\ OpOK(op[p]) /\ op[p].step = "ask"
        /\ op \in [Callers -> Ops]
    BY DEF Core, TypeOK, Ops, OpOK, Ask, At
  <2>2. op' = [op EXCEPT ![p] = n]
    BY <1>2, <2>1 DEF Ops
  <2>3. status \in Statuses /\ monitored \in BOOLEAN
    BY <2>1, Constant DEF Ops
  <2>4. /\ l \in Ops /\ l.kind = op[p].kind /\ l.opp = op[p].opp
        /\ l.alone = op[p].alone
    BY <2>1, <2>3 DEF Ops
  <2> HIDE DEF l
  <2>5. /\ m \in Ops /\ m.kind = op[p].kind /\ m.opp = op[p].opp
        /\ m.alone = op[p].alone
    BY <2>3, <2>4 DEF Ops
  <2> HIDE DEF m
  <2>6. /\ n \in Ops /\ n.step = "apply" /\ n.kind = op[p].kind
        /\ n.opp = op[p].opp /\ n.alone = op[p].alone
    BY <2>5 DEF Ops, Steps, RetentionSteps
  <2> HIDE DEF n
  <2>7. OpOK(n) /\ Relies(n, opps'[n.opp], apps'[n.opp]) /\ Continues(op[p], n)
    BY <2>1, <2>6 DEF OpOK, Relies, Continues, RetentionSteps
  <2>8. QED BY <2>2, <2>7 DEF Moves
<1>3. QED BY <1>1, <1>2 DEF Ask

LEMMA StepMoves ==
  ASSUME Core, NEW p \in Callers, Step(p)
  PROVE  Moves(p)
<1>1. Record(p) \/ Apply(p) => Finish(p)
  BY DEF Record, Apply
<1>2. QED
  BY <1>1, EndMoves, LookToSubmitMoves, LookAgainMoves, PortalMoves,
     LogSuccessMoves, LogFailureMoves, LookToPollMoves, AskMoves DEF Step

LEMMA StepOwnRows ==
  ASSUME Core, NEW p \in Callers, Step(p)
  PROVE  OwnRows(p) /\ op[p].step \notin ({"idle"} \cup RetentionSteps)
<1>1. opps \in [Opps -> OppRows] /\ apps \in [Opps -> AppRows] /\ op[p] \in Ops
  BY DEF Core, TypeOK, OppRows, AppRows, Ops
<1>2. OwnRows(p)
  BY <1>1
  DEF OwnRows, Step, LookToSubmit, LookAgain, Record, Accept, Raise, LogSuccess,
      LogFailure, LookToPoll, Ask, Apply
<1>3. QED
  BY <1>1, <1>2
  DEF Step, LookToSubmit, LookAgain, Record, Accept, Raise, LogSuccess,
      LogFailure, LookToPoll, Ask, Apply, At, RetentionSteps

\* Record and Apply write both tables.
LEMMA RecordWrites ==
  ASSUME Core, NEW p \in Callers, Record(p)
  PROVE  /\ opps' \in [Opps -> OppRows] /\ apps' \in [Opps -> AppRows]
         /\ StatusesAgree'
<1> DEFINE o == op[p].opp
           row == [opps[o] EXCEPT !.status = op[p].status]
<1>1. opps \in [Opps -> OppRows] /\ apps \in [Opps -> AppRows]
      /\ op[p] \in Ops /\ now \in 0..MaxTime
  BY DEF Core, TypeOK, OppRows, AppRows, Ops
<1>2. o \in Opps /\ op[p].status \in Statuses
  BY <1>1 DEF Ops
<1>3. CASE UNCHANGED <<apps, opps>>
  BY <1>1, <1>3 DEF Core, StatusesAgree, Applied, Stored
<1>4. CASE /\ Stored(o) /\ ~Applied(o)
           /\ apps' = [apps EXCEPT ![o] = NewApp(p)]
           /\ opps' = [opps EXCEPT ![o].status = op[p].status]
  <2>1. row \in OppRows /\ row.status = op[p].status
    BY <1>1, <1>2 DEF OppRows
  <2>2. opps' = [opps EXCEPT ![o] = row]
    BY <1>1, <1>2, <1>4
  <2> HIDE DEF row
  <2>3. NewApp(p) \in AppRows /\ NewApp(p).status = op[p].status
    BY <1>1, <1>2 DEF NewApp, AppRows
  <2> HIDE DEF o
  <2>4. opps' \in [Opps -> OppRows] /\ apps' \in [Opps -> AppRows]
    BY <1>1, <1>2, <1>4, <2>1, <2>2, <2>3
  <2>5. /\ opps'[o].status = op[p].status /\ apps'[o].status = op[p].status
        /\ \A q \in Opps : q # o => opps'[q] = opps[q] /\ apps'[q] = apps[q]
    BY <1>1, <1>2, <1>4, <2>1, <2>2, <2>3
  <2>6. StatusesAgree'
    BY <2>5 DEF Core, StatusesAgree, Applied, Stored
  <2>7. QED BY <2>4, <2>6
<1>5. QED BY <1>3, <1>4 DEF Record

LEMMA ApplyWrites ==
  ASSUME Core, NEW p \in Callers, Apply(p)
  PROVE  /\ opps' \in [Opps -> OppRows] /\ apps' \in [Opps -> AppRows]
         /\ StatusesAgree'
<1> DEFINE o == op[p].opp
           row == [opps[o] EXCEPT !.status = op[p].status]
           half == [apps[o] EXCEPT !.status = op[p].status]
           app == [half EXCEPT !.monitored = op[p].monitored]
<1>1. opps \in [Opps -> OppRows] /\ apps \in [Opps -> AppRows]
      /\ op[p] \in Ops
  BY DEF Core, TypeOK, OppRows, AppRows, Ops
<1>2. o \in Opps /\ op[p].status \in Statuses /\ op[p].monitored \in BOOLEAN
  BY <1>1 DEF Ops
<1>3. CASE UNCHANGED <<apps, opps>>
  BY <1>1, <1>3 DEF Core, StatusesAgree, Applied, Stored
<1>4. CASE /\ apps' = [apps EXCEPT ![o].status = op[p].status,
                                   ![o].monitored = op[p].monitored]
           /\ opps' = [opps EXCEPT ![o].status = op[p].status]
  <2>1. row \in OppRows /\ row.status = op[p].status
    BY <1>1, <1>2 DEF OppRows
  <2>2. opps' = [opps EXCEPT ![o] = row] /\ apps' = [apps EXCEPT ![o] = app]
    BY <1>1, <1>2, <1>4 DEF AppRows
  <2> HIDE DEF row
  <2>3. half \in AppRows /\ half.status = op[p].status
    BY <1>1, <1>2 DEF AppRows
  <2> HIDE DEF half
  <2>4. app \in AppRows /\ app.status = op[p].status
    BY <1>2, <2>3 DEF AppRows
  <2> HIDE DEF app, o
  <2>5. opps' \in [Opps -> OppRows] /\ apps' \in [Opps -> AppRows]
    BY <1>1, <1>2, <2>1, <2>2, <2>4
  <2>6. /\ opps'[o].status = op[p].status /\ apps'[o].status = op[p].status
        /\ \A q \in Opps : q # o => opps'[q] = opps[q] /\ apps'[q] = apps[q]
    BY <1>1, <1>2, <2>1, <2>2, <2>4
  <2>7. StatusesAgree'
    BY <2>6 DEF Core, StatusesAgree, Applied, Stored
  <2>8. QED BY <2>5, <2>7
<1>5. QED BY <1>3, <1>4 DEF Apply

LEMMA LoggedTyped ==
  ASSUME Core, NEW p \in Callers, NEW b \in BOOLEAN, op[p].attempt <= MaxRetries
  PROVE  Logged(p, b) \in [Opps -> SUBSET Attempts]
<1>1. op[p] \in Ops /\ now \in 0..MaxTime /\ attempts \in [Opps -> SUBSET Attempts]
  BY DEF Core, TypeOK, Ops, Attempts
<1>2. op[p].opp \in Opps /\ op[p].attempt \in 1..MaxRetries
  BY <1>1, Constant DEF Ops
<1>3. [succeeded |-> b, number |-> op[p].attempt, at |-> now] \in Attempts
  BY <1>1, <1>2 DEF Attempts
<1>4. QED BY <1>1, <1>2, <1>3 DEF Logged

LEMMA StepTyped ==
  ASSUME Core, NEW p \in Callers, Step(p)
  PROVE  TypeOK' /\ StatusesAgree'
<1>1. /\ opps \in [Opps -> OppRows] /\ apps \in [Opps -> AppRows]
      /\ attempts \in [Opps -> SUBSET Attempts] /\ portal \in [Opps -> Nat]
      /\ op \in [Callers -> Ops] /\ now \in 0..MaxTime /\ StatusesAgree
      /\ OpOK(op[p]) /\ op[p].opp \in Opps
  BY DEF Core, TypeOK, OppRows, AppRows, Attempts, Ops
<1>2. op' \in [Callers -> Ops]
  BY <1>1, StepMoves DEF Moves, OpOK
<1>3. now' = now
  BY DEF Step, LookToSubmit, LookAgain, Record, Accept, Raise, LogSuccess,
         LogFailure, LookToPoll, Ask, Apply, Rest
<1>4. /\ opps' \in [Opps -> OppRows] /\ apps' \in [Opps -> AppRows]
      /\ StatusesAgree'
  <2>1. CASE Record(p) \/ Apply(p)
    BY <2>1, RecordWrites, ApplyWrites
  <2>2. CASE opps' = opps /\ apps' = apps
    BY <1>1, <2>2 DEF StatusesAgree, Applied, Stored
  <2>3. QED
    BY <2>1, <2>2 DEF Step, LookToSubmit, LookAgain, Accept, Raise, LogSuccess,
                      LogFailure, LookToPoll, Ask
<1>5. portal' \in [Opps -> Nat]
  <2>1. CASE Accept(p) \/ Raise(p)
    BY <1>1, <2>1 DEF Accept, Raise
  <2>2. CASE portal' = portal
    BY <1>1, <2>2
  <2>3. QED
    BY <2>1, <2>2 DEF Step, LookToSubmit, LookAgain, Record, LogSuccess,
                      LogFailure, LookToPoll, Ask, Apply
<1>6. attempts' \in [Opps -> SUBSET Attempts]
  <2>1. CASE LogSuccess(p) \/ LogFailure(p)
    <3>1. op[p].attempt <= MaxRetries
      BY <1>1, <2>1 DEF LogSuccess, LogFailure, At, OpOK
    <3>2. QED BY <2>1, <3>1, LoggedTyped DEF LogSuccess, LogFailure
  <2>2. CASE attempts' = attempts
    BY <1>1, <2>2
  <2>3. QED
    BY <2>1, <2>2 DEF Step, LookToSubmit, LookAgain, Record, Accept, Raise,
                      LookToPoll, Ask, Apply
<1>7. QED
  BY <1>1, <1>2, <1>3, <1>4, <1>5, <1>6
  DEF TypeOK, OppRows, AppRows, Attempts, Ops

\* An operation that moves on or ends leaves the others what they rely on.
LEMMA MoveKeepsCore ==
  ASSUME Core, TypeOK', StatusesAgree', NEW p \in Callers, NEW n,
         op' = [op EXCEPT ![p] = n], OpOK(n),
         \/ n = NoOp
         \/ /\ n.kind = op[p].kind /\ n.opp = op[p].opp
            /\ n.alone = op[p].alone /\ op[p].step # "idle",
         Relies(n, opps'[n.opp], apps'[n.opp]),
         \A q \in Callers :
           q # p /\ op[q].step # "idle" /\ op[q].alone =>
             /\ opps'[op[q].opp] = opps[op[q].opp]
             /\ apps'[op[q].opp] = apps[op[q].opp]
  PROVE  Core'
<1>1. op \in [Callers -> Ops] /\ Apart
      /\ \A q \in Callers : OpOK(op[q]) /\ View(q)
  BY DEF Core, TypeOK, Ops
<1>2. op'[p] = n /\ \A q \in Callers : q # p => op'[q] = op[q]
  BY <1>1
<1>3. ASSUME NEW q \in Callers
      PROVE  (OpOK(op[q]) /\ View(q))'
  <2>1. CASE q = p
    BY <1>2, <2>1 DEF View, OpOK
  <2>2. CASE q # p /\ (op[q].step = "idle" \/ ~op[q].alone)
    BY <1>1, <1>2, <2>2, NoOpTyped DEF View, Relies, OpOK, NoOp
  <2>3. CASE q # p /\ op[q].step # "idle" /\ op[q].alone
    BY <1>1, <1>2, <2>3 DEF View, OpOK
  <2>4. QED BY <2>1, <2>2, <2>3
<1>4. Apart'
  <2>1. NoOp.step = "idle"
    BY NoOpTyped
  <2>2. QED BY <1>1, <1>2, <2>1 DEF Apart, Overlap
<1>5. QED BY <1>3, <1>4 DEF Core

LEMMA StepKeepsCore ==
  ASSUME Core, NEW p \in Callers, Step(p)
  PROVE  Core'
<1>1. PICK n : /\ op' = [op EXCEPT ![p] = n]
               /\ OpOK(n)
               /\ n = NoOp \/ Continues(op[p], n)
               /\ Relies(n, opps'[n.opp], apps'[n.opp])
  BY StepMoves DEF Moves
<1>2. OwnRows(p) /\ op[p].step # "idle"
  BY StepOwnRows
<1>3. ASSUME NEW q \in Callers, q # p, op[q].step # "idle", op[q].alone
      PROVE  /\ opps'[op[q].opp] = opps[op[q].opp]
             /\ apps'[op[q].opp] = apps[op[q].opp]
  <2>1. op[q].opp \in Opps
    BY DEF Core, TypeOK
  <2>2. op[q].opp # op[p].opp
    BY <1>2, <1>3 DEF Core, Apart, Overlap
  <2>3. QED BY <1>2, <2>1, <2>2 DEF OwnRows
<1>4. QED BY <1>1, <1>2, <1>3, StepTyped, MoveKeepsCore DEF Continues

-----------------------------------------------------------------------------
(* The other steps. *)

\* An operation that begins relies on nothing yet.
Begins(n) ==
  /\ OpOK(n) /\ n.step # "idle"
  /\ n.kind \in {"submit", "browser"} => n.step = "look"
  /\ n.kind = "poll" => n.step # "apply"

LEMMA EnterKeepsCore ==
  ASSUME Core, NEW p \in Callers, NEW new, Begins(new), Enter(p, new)
  PROVE  Core'
<1>1. /\ new \in Ops /\ op' = Entered(p, new) /\ At(p, "idle")
      /\ UNCHANGED <<opps, apps, attempts, portal, now>>
  BY DEF Enter, Begins, OpOK
<1>9. /\ op \in [Callers -> Ops] /\ Apart /\ op[p].step = "idle"
      /\ \A q \in Callers : OpOK(op[q]) /\ View(q)
  BY <1>1 DEF Core, TypeOK, Ops, At
<1> DEFINE over(q) == /\ op[q].step # "idle"
                      /\ op[q].opp = new.opp \/ "retain" \in {op[q].kind, new.kind}
           first == \A r \in Callers : ~over(r)
<1>10. op' = [q \in Callers |->
                IF q = p THEN [new EXCEPT !.alone = first]
                ELSE [op[q] EXCEPT !.alone = @ /\ ~over(q)]]
  BY <1>1 DEF Entered
<1>11. first \in BOOLEAN
  OBVIOUS
<1>12. ASSUME NEW q \in Callers PROVE over(q) \in BOOLEAN
  OBVIOUS
<1>13. ASSUME NEW q \in Callers, over(q) PROVE op[q].step # "idle"
  BY <1>13
<1>14. /\ op'[p] \in Ops /\ op'[p].kind = new.kind /\ op'[p].opp = new.opp
       /\ op'[p].attempt = new.attempt /\ op'[p].status = new.status
       /\ op'[p].step = new.step /\ op'[p].alone = first
  <2>1. op'[p] = [new EXCEPT !.alone = first]
    BY <1>10
  <2> HIDE DEF first
  <2>2. QED BY <1>1, <1>11, <2>1 DEF Ops
<1>15. ASSUME NEW q \in Callers, q # p
       PROVE  /\ op'[q] \in Ops /\ op'[q].kind = op[q].kind
              /\ op'[q].opp = op[q].opp /\ op'[q].attempt = op[q].attempt
              /\ op'[q].status = op[q].status /\ op'[q].step = op[q].step
              /\ op'[q].alone = (op[q].alone /\ ~over(q))
  <2> DEFINE b == op[q].alone /\ ~over(q)
  <2>1. op[q] \in Ops /\ b \in BOOLEAN
    BY <1>9
  <2>2. op'[q] = [op[q] EXCEPT !.alone = b]
    BY <1>10, <1>15
  <2> HIDE DEF b
  <2>3. /\ op'[q] \in Ops /\ op'[q].kind = op[q].kind
        /\ op'[q].opp = op[q].opp /\ op'[q].attempt = op[q].attempt
        /\ op'[q].status = op[q].status /\ op'[q].step = op[q].step
        /\ op'[q].alone = b
    BY <2>1, <2>2 DEF Ops
  <2>4. QED BY <2>3 DEF b
<1> HIDE DEF over, first
<1>16. OpOK(op'[p]) /\ Relies(op'[p], opps'[op'[p].opp], apps'[op'[p].opp])
  BY <1>14 DEF Begins, OpOK, Relies
<1>17. ASSUME NEW q \in Callers, q # p
       PROVE  OpOK(op'[q]) /\ Relies(op'[q], opps'[op'[q].opp], apps'[op'[q].opp])
  <2>1. OpOK(op[q]) /\ View(q)
    BY <1>9
  <2>2. CASE op[q].step = "idle"
    <3>1. op[q] = NoOp /\ ~over(q)
      BY <1>13, <2>1, <2>2 DEF OpOK
    <3>2. op[q].alone = TRUE
      BY <3>1 DEF NoOp
    <3>3. op'[q] = NoOp
      BY <1>9, <1>10, <1>17, <3>1, <3>2 DEF NoOp, over
    <3>4. QED BY <3>3, NoOpTyped DEF Relies, NoOp
  <2>3. CASE op[q].step # "idle"
    <3>1. OpOK(op'[q])
      BY <1>15, <1>17, <2>1, <2>3 DEF OpOK
    <3>2. opps' = opps /\ apps' = apps
      BY <1>1
    <3>3. QED BY <1>15, <1>17, <2>1, <3>1, <3>2 DEF View, Relies
  <2>4. QED BY <2>2, <2>3
<1>18. Apart'
  <2> SUFFICES ASSUME NEW q \in Callers, NEW r \in Callers, q # r,
                      Overlap(op'[q], op'[r])
               PROVE  ~op'[q].alone
    BY DEF Apart
  <2>1. CASE q = p
    <3>1. over(r)
      BY <1>14, <1>15, <2>1 DEF Overlap, over
    <3>2. QED BY <1>14, <2>1, <3>1 DEF first
  <2>2. CASE r = p
    <3>1. over(q)
      BY <1>14, <1>15, <2>2 DEF Overlap, over
    <3>2. QED BY <1>15, <2>2, <3>1
  <2>3. CASE q # p /\ r # p
    <3>1. Overlap(op[q], op[r])
      BY <1>15, <2>3 DEF Overlap
    <3>2. QED BY <1>9, <1>15, <2>3, <3>1 DEF Apart
  <2>4. QED BY <2>1, <2>2, <2>3
<1>19. TypeOK' /\ StatusesAgree'
  <2>1. op' \in [Callers -> Ops]
    BY <1>10, <1>14, <1>15
  <2>2. QED BY <1>1, <2>1 DEF Core, TypeOK, Ops, StatusesAgree, Applied, Stored
<1>20. QED BY <1>16, <1>17, <1>18, <1>19 DEF Core, View

\* What begins: an operation of Applications, or a retention run.
LEMMA BeginEnters ==
  ASSUME NEW p \in Callers, Begin(p)
  PROVE  \E new : Begins(new) /\ Enter(p, new) /\ new.step \in {"look", "apply"}
<1>1. PICK o \in Opps, kind \in Kinds \ {"retain"}, status \in Given :
        Enter(p, [NoOp EXCEPT !.kind = kind, !.opp = o,
           !.status = IF kind \in {"submit", "update"} THEN status ELSE "new",
           !.step = IF kind = "update" THEN "apply" ELSE "look"])
  BY DEF Begin
<1> DEFINE st == IF kind \in {"submit", "update"} THEN status ELSE "new"
           sp == IF kind = "update" THEN "apply" ELSE "look"
           n1 == [NoOp EXCEPT !.kind = kind]
           n2 == [n1 EXCEPT !.opp = o]
           n3 == [n2 EXCEPT !.status = st]
           new == [n3 EXCEPT !.step = sp]
<1>2. Enter(p, new)
  BY <1>1, NoOpTyped DEF Ops
<1>3. st \in Statuses /\ (kind = "browser" => st = "new")
  BY Constant
<1>4. sp \in Steps /\ sp \in {"apply", "look"} /\ (sp = "apply" <=> kind = "update")
  BY DEF Steps, RetentionSteps
<1> HIDE DEF st, sp
<1>5. n1 \in Ops /\ n1.kind = kind /\ n1.attempt = 1
  BY NoOpTyped DEF Ops, NoOp
<1> HIDE DEF n1
<1>6. n2 \in Ops /\ n2.kind = kind /\ n2.attempt = 1
  BY <1>5 DEF Ops
<1> HIDE DEF n2
<1>7. n3 \in Ops /\ n3.kind = kind /\ n3.attempt = 1 /\ n3.status = st
  BY <1>3, <1>6 DEF Ops
<1> HIDE DEF n3
<1>8. /\ new \in Ops /\ new.kind = kind /\ new.attempt = 1
      /\ new.status = st /\ new.step = sp
  BY <1>4, <1>7 DEF Ops
<1> HIDE DEF new
<1>9. Begins(new)
  BY <1>3, <1>4, <1>8, Constant DEF Begins, OpOK, RetentionSteps, Kinds
<1>10. QED BY <1>2, <1>4, <1>8, <1>9

LEMMA BeginKeepsCore ==
  ASSUME Core, NEW p \in Callers, Begin(p) PROVE Core'
BY BeginEnters, EnterKeepsCore

LEMMA EnforceEnters ==
  ASSUME NEW p \in Callers, Enforce(p)
  PROVE  \E new : Begins(new) /\ Enter(p, new) /\ new.step = "mail"
<1> DEFINE n1 == [NoOp EXCEPT !.kind = "retain"]
           new == [n1 EXCEPT !.step = "mail"]
<1>1. Enter(p, new)
  BY NoOpTyped DEF Enforce, Ops
<1>2. n1 \in Ops /\ n1.kind = "retain" /\ n1.attempt = 1
  BY NoOpTyped DEF Ops, NoOp, Kinds
<1> HIDE DEF n1
<1>3. new \in Ops /\ new.kind = "retain" /\ new.step = "mail"
  BY <1>2 DEF Ops, Steps, RetentionSteps
<1> HIDE DEF new
<1>4. Begins(new)
  BY <1>3 DEF Begins, OpOK, RetentionSteps
<1>5. QED BY <1>1, <1>3, <1>4

LEMMA EnforceKeepsCore ==
  ASSUME Core, NEW p \in Callers, Enforce(p) PROVE Core'
BY EnforceEnters, EnterKeepsCore

\* Steps that leave the rows and the operations of Applications as they are.
LEMMA IdleKeepsCore ==
  ASSUME Core, UNCHANGED <<opps, apps, attempts, portal, op>>, now' \in 0..MaxTime
  PROVE  Core'
BY DEF Core, TypeOK, View, Apart, StatusesAgree, Applied, Stored

LEMMA TickKeepsCore ==
  ASSUME Core, Tick
  PROVE  Core'
<1>1. now' \in 0..MaxTime
  <2>1. now \in 0..MaxTime /\ now < MaxTime /\ now' = now + 1 /\ MaxTime \in Nat
    BY Constant DEF Core, TypeOK, Tick
  <2>2. QED BY <2>1
<1>2. QED BY <1>1, IdleKeepsCore DEF Tick

LEMMA DiscoverKeepsCore ==
  ASSUME Core, NEW o \in Opps, Discover(o)
  PROVE  Core'
<1> DEFINE row == [status |-> "new", at |-> now]
<1>1. opps \in [Opps -> OppRows] /\ now \in 0..MaxTime /\ ~Stored(o)
      /\ opps' = [opps EXCEPT ![o] = row]
      /\ UNCHANGED <<apps, attempts, portal, op, now>>
  BY DEF Core, TypeOK, OppRows, Discover
<1>2. row \in OppRows /\ row.status = "new" /\ row.status # "none"
  BY <1>1, Constant DEF OppRows
<1> HIDE DEF row
<1>3. /\ opps' \in [Opps -> OppRows] /\ opps'[o] = row
      /\ \A q \in Opps : q # o => opps'[q] = opps[q]
  BY <1>1, <1>2
<1>4. ~Applied(o)
  BY <1>1 DEF Core, StatusesAgree
<1>5. StatusesAgree'
  BY <1>1, <1>3, <1>4 DEF Core, StatusesAgree, Applied, Stored
<1>6. TypeOK'
  BY <1>1, <1>3 DEF Core, TypeOK, OppRows
<1>7. ASSUME NEW q \in Callers PROVE (OpOK(op[q]) /\ View(q))'
  <2>1. op[q].opp \in Opps /\ OpOK(op[q]) /\ View(q)
    BY DEF Core, TypeOK
  <2>2. QED BY <1>1, <1>2, <1>3, <2>1 DEF View, Relies, OpOK
<1>8. Apart'
  BY <1>1 DEF Core, Apart
<1>9. QED BY <1>5, <1>6, <1>7, <1>8 DEF Core

\* The end of an operation, whatever became of rows no one alone is at.
LEMMA EndKeepsCore ==
  ASSUME Core, NEW p \in Callers, Finish(p), TypeOK', StatusesAgree',
         opps' = opps \/ op[p].kind = "retain", apps' = apps
  PROVE  Core'
<1>1. Relies(NoOp, opps'[NoOp.opp], apps'[NoOp.opp])
  BY DEF Relies, NoOp
<1>2. ASSUME NEW q \in Callers, q # p, op[q].step # "idle", op[q].alone
      PROVE  opps'[op[q].opp] = opps[op[q].opp] /\ apps'[op[q].opp] = apps[op[q].opp]
  <2>1. op[p].kind = "retain" => op[p].step # "idle"
    BY DEF Core, OpOK, RetentionSteps
  <2>2. op[p].kind # "retain"
    BY <1>2, <2>1 DEF Core, Apart, Overlap
  <2>3. QED BY <2>2
<1>3. QED BY <1>1, <1>2, NoOpTyped, MoveKeepsCore DEF Finish

LEMMA FinishTyped ==
  ASSUME Core, NEW p \in Callers, Finish(p)
  PROVE  op' \in [Callers -> Ops]
BY NoOpTyped DEF Core, TypeOK, Ops, Finish

LEMMA KilledKeepsCore ==
  ASSUME Core, NEW p \in Callers, Killed(p) \/ DeleteFails(p)
  PROVE  Core'
<1>1. /\ UNCHANGED <<opps, apps, attempts, portal, now>> /\ Finish(p)
  BY DEF Killed, DeleteFails, Rest
<1>2. TypeOK' /\ StatusesAgree'
  BY <1>1, FinishTyped DEF Core, TypeOK, Ops, StatusesAgree, Applied, Stored
<1>3. QED BY <1>1, <1>2, EndKeepsCore

\* A step of a run that goes on to the step x.
RunsOn(p, x) ==
  /\ op[p].step \in RetentionSteps /\ Goto(p, x)
  /\ UNCHANGED <<opps, apps, attempts, portal, now, crashes, mails, tasks, docs,
                 files>>

LEMMA SelectRunsOn ==
  ASSUME NEW p \in Callers, Select(p) \/ Write(p)
  PROVE  \E x \in RetentionSteps : RunsOn(p, x)
BY DEF Select, SelectMails, SelectDocs, SelectAttempts, SelectTasks, SelectOpps,
       SelectEvents, Reads, Write, RunsOn, RetentionSteps, At, Rest

LEMMA RunKeepsCore ==
  ASSUME Core, NEW p \in Callers, NEW x \in RetentionSteps, RunsOn(p, x)
  PROVE  Core'
<1> DEFINE n == [op[p] EXCEPT !.step = x]
<1>1. /\ UNCHANGED <<opps, apps, attempts, portal, now>>
      /\ op[p] \in Ops /\ op \in [Callers -> Ops] /\ OpOK(op[p])
      /\ op[p].step \in RetentionSteps /\ x \in Steps
  BY DEF Core, TypeOK, OpOK, Ops, RunsOn, Steps
<1>2. op' = [op EXCEPT ![p] = n]
  BY <1>1 DEF RunsOn, Goto
<1>3. /\ n \in Ops /\ n.step = x /\ n.kind = op[p].kind
      /\ n.opp = op[p].opp /\ n.status = op[p].status
      /\ n.alone = op[p].alone
  BY <1>1 DEF Ops
<1> HIDE DEF n
<1>4. op[p].kind = "retain" /\ op[p].step # "idle"
  BY <1>1 DEF OpOK, RetentionSteps
<1>5. OpOK(n) /\ Relies(n, opps'[n.opp], apps'[n.opp])
  BY <1>3, <1>4 DEF OpOK, Relies, RetentionSteps
<1>6. op' \in [Callers -> Ops]
  BY <1>1, <1>2, <1>3
<1>7. TypeOK' /\ StatusesAgree'
  BY <1>1, <1>6 DEF Core, TypeOK, Ops, StatusesAgree, Applied, Stored
<1>8. QED BY <1>1, <1>2, <1>3, <1>4, <1>5, <1>7, MoveKeepsCore

LEMMA DeleteKeepsCore ==
  ASSUME Core, NEW p \in Callers, Delete(p)
  PROVE  Core'
<1>1. /\ opps \in [Opps -> OppRows] /\ attempts \in [Opps -> SUBSET Attempts]
      /\ OpOK(op[p]) /\ op[p].step = "delete" /\ Finish(p)
      /\ UNCHANGED <<apps, portal, now>>
      /\ opps' = [o \in Opps |-> IF o \in SelectedOpps(p) THEN NoOpp ELSE opps[o]]
      /\ attempts' = [o \in Opps |->
           {a \in attempts[o] : ~Expired(a.at, "attempt", DeletedBy(p))}]
      /\ \A o \in SelectedOpps(p) : ~Applied(o)
  BY DEF Core, TypeOK, OppRows, Attempts, Delete, Blocked, Rest, At
<1>2. NoOpp \in OppRows
  BY Constant DEF NoOpp, OppRows
<1>3. opps' \in [Opps -> OppRows] /\ attempts' \in [Opps -> SUBSET Attempts]
  BY <1>1, <1>2
<1>4. TypeOK'
  BY <1>1, <1>3, FinishTyped DEF Core, TypeOK, OppRows, Attempts, Ops
<1>5. StatusesAgree'
  BY <1>1 DEF Core, StatusesAgree, Applied, Stored
<1>6. op[p].kind = "retain"
  BY <1>1 DEF OpOK, RetentionSteps
<1>7. QED BY <1>1, <1>4, <1>5, <1>6, EndKeepsCore

LEMMA InitCore ==
  ASSUME RetentionInit
  PROVE  Core
<1>1. /\ op \in [Callers -> Ops] /\ NoOpp \in OppRows /\ NoApp \in AppRows
      /\ now \in 0..MaxTime
  BY NoOpTyped, Constant DEF RetentionInit, Init, NoOpp, NoApp, OppRows, AppRows
<1>2. TypeOK
  BY <1>1 DEF RetentionInit, Init, TypeOK, OppRows, AppRows, Ops
<1>3. ASSUME NEW p \in Callers PROVE OpOK(op[p]) /\ View(p) /\ op[p].step = "idle"
  BY <1>3, NoOpTyped DEF RetentionInit, Init, View, Relies, NoOp
<1>4. Apart
  BY <1>3 DEF Apart, Overlap
<1>5. StatusesAgree
  BY DEF RetentionInit, Init, StatusesAgree, Applied, NoApp
<1>6. QED BY <1>2, <1>3, <1>4, <1>5 DEF Core

LEMMA NextCore ==
  ASSUME Core, [RetentionNext]_allVars
  PROVE  Core'
<1>1. CASE UNCHANGED allVars
  BY <1>1, IdleKeepsCore DEF allVars, vars, Core, TypeOK
<1>2. CASE Operate
  BY <1>2, StepKeepsCore, BeginKeepsCore, DiscoverKeepsCore, TickKeepsCore
  DEF Operate
<1>3. ASSUME NEW m \in Mails, SendMail(m) \/ RecordEvent(m) PROVE Core'
  BY <1>3, IdleKeepsCore DEF SendMail, RecordEvent, Starts, Core, TypeOK
<1>4. ASSUME NEW t \in Tasks, UpdateTask(t) PROVE Core'
  BY <1>4, IdleKeepsCore DEF UpdateTask, Starts, Core, TypeOK
<1>5. ASSUME NEW p \in Callers, Draw(p) \/ Store(p) \/ Unlink(p) PROVE Core'
  BY <1>5, IdleKeepsCore
  DEF Draw, Store, Unlink, Starts, vars, Core, TypeOK
<1>6. ASSUME NEW p \in Callers, Select(p) \/ Write(p) PROVE Core'
  BY <1>6, SelectRunsOn, RunKeepsCore
<1>7. QED
  BY <1>1, <1>2, <1>3, <1>4, <1>5, <1>6, EnforceKeepsCore, DeleteKeepsCore,
     KilledKeepsCore DEF RetentionNext

\* Types and tables: an application has its opportunity, with its status,
\* whatever operations and retention runs overlap.
THEOREM StatusesStayTogether == RetentionSpec => [](TypeOK /\ StatusesAgree)
<1>1. RetentionInit => Core
  BY InitCore
<1>2. Core /\ [RetentionNext]_allVars => Core'
  BY NextCore
<1>3. Core => TypeOK /\ StatusesAgree
  BY DEF Core
<1>4. QED BY <1>1, <1>2, <1>3, PTL DEF RetentionSpec

-----------------------------------------------------------------------------
(* What a step may never do to an application. *)

Counted == crashes \in Nat

LEMMA StepCounted ==
  ASSUME NEW p \in Callers, Step(p) PROVE crashes' = crashes
BY DEF Step, LookToSubmit, LookAgain, Record, Accept, Raise, LogSuccess,
       LogFailure, LookToPoll, Ask, Apply, Rest

LEMMA NextCounted ==
  ASSUME Counted, [RetentionNext]_allVars
  PROVE  Counted'
<1>1. CASE UNCHANGED allVars
  BY <1>1 DEF Counted, allVars, vars
<1>2. CASE Operate
  BY <1>2, StepCounted DEF Operate, Begin, Enter, Discover, Tick, Counted
<1>3. ASSUME NEW p \in Callers, \/ Draw(p) \/ Store(p) \/ Enforce(p) \/ Delete(p)
                                \/ DeleteFails(p) \/ Unlink(p) \/ Killed(p)
      PROVE  Counted'
  BY <1>3 DEF Draw, Store, Enforce, Enter, Delete, DeleteFails, Unlink, Killed,
              Starts, Rest, vars, Counted
<1>4. ASSUME \/ \E m \in Mails : SendMail(m) \/ RecordEvent(m)
             \/ \E t \in Tasks : UpdateTask(t)
      PROVE  Counted'
  BY <1>4 DEF SendMail, RecordEvent, UpdateTask, Starts, Counted
<1>5. ASSUME NEW p \in Callers, Select(p) \/ Write(p) PROVE Counted'
  BY <1>5, SelectRunsOn DEF RunsOn, Counted
<1>6. QED BY <1>1, <1>2, <1>3, <1>4, <1>5 DEF RetentionNext

LEMMA CrashesCounted == RetentionSpec => []Counted
<1>1. RetentionInit => Counted
  BY DEF RetentionInit, Init, Counted
<1>2. Counted /\ [RetentionNext]_allVars => Counted'
  BY NextCounted
<1>3. QED BY <1>1, <1>2, PTL DEF RetentionSpec

LEMMA EnterStarts ==
  ASSUME Core, NEW p \in Callers, NEW new, Enter(p, new), NEW q \in Callers,
         op'[q].step = "idle"
  PROVE  op[q].step = "idle"
<1>1. CASE q = p
  BY <1>1 DEF Enter, At
<1>2. CASE q # p
  <2>1. op[q] \in Ops
    BY DEF Core, TypeOK, Ops
  <2>2. PICK b : op'[q] = [op[q] EXCEPT !.alone = b]
    BY <1>2 DEF Enter, Entered
  <2>3. QED BY <2>1, <2>2 DEF Ops
<1>3. QED BY <1>1, <1>2

\* Applications and the portal change in the steps of an operation only, and
\* a browser submission ends in one, or when its process is killed.
LEMMA NextIs ==
  ASSUME Core, Counted, [RetentionNext]_allVars
  PROVE  \/ \E p \in Callers : Step(p)
         \/ /\ UNCHANGED <<apps, portal>>
            /\ \A q \in Callers :
                 op[q].kind = "browser" /\ op'[q].step = "idle"
                 /\ crashes' = crashes => op[q].step = "idle"
<1>1. CASE UNCHANGED <<apps, portal, op>>
  BY <1>1
<1>2. ASSUME NEW p \in Callers, Begin(p) \/ Enforce(p)
      PROVE  /\ UNCHANGED <<apps, portal>>
             /\ \A q \in Callers : op'[q].step = "idle" => op[q].step = "idle"
  <2>1. PICK new : Enter(p, new)
    BY <1>2, BeginEnters, EnforceEnters
  <2>2. QED BY <2>1, EnterStarts DEF Enter
<1>3. ASSUME NEW p \in Callers,
             Select(p) \/ Write(p) \/ Delete(p) \/ DeleteFails(p)
      PROVE  /\ UNCHANGED <<apps, portal>>
             /\ \A q \in Callers : q # p => op'[q] = op[q]
             /\ op[p].kind = "retain"
  <2>1. op[p].step \in RetentionSteps => op[p].kind = "retain"
    BY DEF Core, OpOK
  <2>2. CASE Select(p) \/ Write(p)
    BY <2>1, <2>2, SelectRunsOn DEF RunsOn, Goto, Core, TypeOK
  <2>3. CASE Delete(p) \/ DeleteFails(p)
    BY <2>1, <2>3
    DEF Delete, DeleteFails, Finish, At, Core, TypeOK, RetentionSteps
  <2>4. QED BY <1>3, <2>2, <2>3
<1>4. ASSUME NEW p \in Callers, Killed(p)
      PROVE  UNCHANGED <<apps, portal>> /\ crashes' # crashes
  BY <1>4 DEF Killed, Counted
<1>5. ASSUME Operate
      PROVE  \/ \E p \in Callers : Step(p)
             \/ \E p \in Callers : Begin(p)
             \/ UNCHANGED <<apps, portal, op>>
  BY <1>5 DEF Operate, Discover, Tick
<1>6. ASSUME \/ \E m \in Mails : SendMail(m) \/ RecordEvent(m)
             \/ \E t \in Tasks : UpdateTask(t)
             \/ \E p \in Callers : Draw(p) \/ Store(p) \/ Unlink(p)
      PROVE  UNCHANGED <<apps, portal, op>>
  BY <1>6 DEF SendMail, RecordEvent, UpdateTask, Draw, Store, Unlink, Starts, vars
<1>7. \/ \E p \in Callers : Step(p)
      \/ \E p \in Callers : Begin(p) \/ Enforce(p)
      \/ UNCHANGED <<apps, portal, op>>
      \/ \E p \in Callers : Select(p) \/ Write(p) \/ Delete(p) \/ DeleteFails(p)
      \/ \E p \in Callers : Killed(p)
  <2>1. CASE UNCHANGED allVars
    BY <2>1 DEF allVars, vars
  <2>2. CASE RetentionNext
    BY <2>2, <1>5, <1>6 DEF RetentionNext
  <2>3. QED BY <2>1, <2>2
<1>8. QED
  <2>1. CASE \E p \in Callers : Select(p) \/ Write(p) \/ Delete(p) \/ DeleteFails(p)
    <3>1. PICK p \in Callers : Select(p) \/ Write(p) \/ Delete(p) \/ DeleteFails(p)
      BY <2>1
    <3>2. QED BY <1>3, <3>1
  <2>2. QED BY <1>1, <1>2, <1>4, <1>7, <2>1

LEMMA OnlyItMoves ==
  ASSUME Core, NEW p \in Callers, Step(p), NEW q \in Callers, op'[q] # op[q]
  PROVE  q = p
BY StepMoves DEF Moves, Core, TypeOK

LEMMA BrowserEnds ==
  ASSUME Core, NEW p \in Callers, Step(p), CalledPortal(op[p]), op[p].alone,
         op'[p].step = "idle"
  PROVE  LET o == op[p].opp IN
         /\ apps'[o].status \in {"submitted", "pending"}
         /\ apps'[o].status = op[p].status /\ opps'[o].status = op[p].status
         /\ apps'[o].referenced <=> op[p].status = "submitted"
<1> DEFINE o == op[p].opp
<1>1. /\ op[p] \in Ops /\ OpOK(op[p]) /\ View(p) /\ o \in Opps
      /\ opps \in [Opps -> OppRows] /\ apps \in [Opps -> AppRows]
      /\ op \in [Callers -> Ops]
  BY DEF Core, TypeOK, OpOK, OppRows, AppRows, Ops
<1>2. op[p].kind = "browser" /\ op[p].step # "look"
  BY <1>1, Constant DEF CalledPortal, OpOK
<1>3. op[p].step \in {"lookAgain", "record"}
  <2>1. ASSUME NEW x \in Steps, op'[p] = [op[p] EXCEPT !.step = x] PROVE FALSE
    <3>1. op'[p].step = x
      BY <1>1, <2>1 DEF Ops
    <3>2. QED BY <3>1 DEF Steps, RetentionSteps
  <2>2. ~Accept(p) /\ ~Raise(p)
    BY <1>1, <2>1 DEF Accept, Raise, Goto, Steps
  <2>3. ~LogSuccess(p) /\ ~LogFailure(p)
    <3>1. ASSUME LogSuccess(p) PROVE FALSE
      <4> DEFINE m == [op[p] EXCEPT !.status = "submitted"]
      <4>1. op'[p] = [m EXCEPT !.step = "lookAgain"] /\ m \in Ops
        BY <1>1, <3>1, Constant DEF LogSuccess, Ops
      <4> HIDE DEF m
      <4>2. QED BY <4>1 DEF Ops
    <3>2. ASSUME LogFailure(p) PROVE FALSE
      <4>1. PICK m, x : op'[p] = [m EXCEPT !.step = x] /\ m \in Ops
                        /\ x \in {"lookAgain", "portal"}
        <5> DEFINE next == op[p].attempt + 1
                   status == IF next > MaxRetries THEN "pending" ELSE op[p].status
                   x == IF next > MaxRetries THEN "lookAgain" ELSE "portal"
                   l == [op[p] EXCEPT !.attempt = next]
                   m == [l EXCEPT !.status = status]
        <5>1. op[p].attempt \in Nat /\ op[p].attempt <= MaxRetries
              /\ op[p].step = "logFailure"
          BY <1>1, <3>2, Constant DEF LogFailure, OpOK, Ops, At
        <5>2. next \in 1..(MaxRetries + 1)
          BY <5>1, Constant
        <5>3. status \in Statuses
          BY <1>1, Constant DEF Ops
        <5>4. op'[p] = [m EXCEPT !.step = x]
          BY <1>1, <3>2 DEF LogFailure, Ops
        <5> HIDE DEF next, status
        <5>5. l \in Ops
          BY <1>1, <5>2 DEF Ops
        <5> HIDE DEF l
        <5>6. m \in Ops
          BY <5>3, <5>5 DEF Ops
        <5> HIDE DEF m
        <5>7. QED BY <5>4, <5>6
      <4>2. QED BY <4>1 DEF Ops
    <3>3. QED BY <3>1, <3>2
  <2>4. op[p].step \notin {"look", "ask", "apply"}
    BY <1>1, <1>2 DEF OpOK
  <2>5. QED
    BY <2>2, <2>3, <2>4 DEF Step, LookToSubmit, LookAgain, Record, LookToPoll,
                            Ask, Apply, At
<1>4. Stored(o) /\ ~Applied(o)
  BY <1>1, <1>2, <1>3 DEF View, Relies, Stored, Applied
<1>5. LookAgain(p) \/ Record(p)
  BY <1>3 DEF Step, LookToSubmit, Accept, Raise, LogSuccess, LogFailure,
              LookToPoll, Ask, Apply, At
<1>6. ~LookAgain(p)
  <2>1. ASSUME LookAgain(p) PROVE op'[p] = [op[p] EXCEPT !.step = "record"]
    BY <1>1, <1>4, <2>1 DEF LookAgain, Goto
  <2>2. QED BY <1>1, <2>1 DEF Ops
<1>7. /\ apps' = [apps EXCEPT ![o] = NewApp(p)]
      /\ opps' = [opps EXCEPT ![o].status = op[p].status]
  BY <1>4, <1>5, <1>6 DEF Record
<1>8. /\ apps'[o].status = op[p].status
      /\ apps'[o].referenced <=> op[p].status = "submitted"
  <2>1. apps'[o] = NewApp(p)
    BY <1>1, <1>7
  <2>2. /\ NewApp(p).referenced =
             (op[p].status = "submitted" /\ op[p].kind = "browser")
        /\ NewApp(p).status = op[p].status
    BY DEF NewApp
  <2>3. QED BY <1>2, <2>1, <2>2
<1>9. opps'[o].status = op[p].status
  BY <1>1, <1>7 DEF OppRows
<1>10. op[p].status \in {"submitted", "pending"}
  BY <1>1, <1>2, <1>3 DEF OpOK
<1>11. QED BY <1>8, <1>9, <1>10

\* A submission that called the portal, that nothing overlapped and whose process
\* lives on, ends as an application: submitted with the portal's reference, or
\* pending without one when every call raised.
THEOREM CallsAreRecorded == RetentionSpec => PortalCallsAreRecorded
<1>1. RetentionInit => Core
  BY InitCore
<1>2. Core /\ [RetentionNext]_allVars => Core'
  BY NextCore
<1>3. ASSUME Core, Counted, [RetentionNext]_allVars, NEW p \in Callers,
             CalledPortal(op[p]), op[p].alone,
             op'[p].step = "idle", crashes' = crashes
      PROVE  LET o == op[p].opp IN
             /\ apps'[o].status \in {"submitted", "pending"}
             /\ apps'[o].status = op[p].status /\ opps'[o].status = op[p].status
             /\ apps'[o].referenced <=> op[p].status = "submitted"
  <2>1. op[p].step # "idle" /\ op[p].kind = "browser"
    <3>1. NoOp.kind = "submit"
      BY DEF NoOp
    <3>2. QED BY <1>3, <3>1 DEF Core, OpOK, CalledPortal
  <2>2. PICK q \in Callers : Step(q)
    BY <1>3, <2>1, NextIs
  <2>3. p = q
    BY <1>3, <2>1, <2>2, OnlyItMoves
  <2>4. QED BY <1>3, <2>2, <2>3, BrowserEnds
<1>4. Core /\ Counted /\ [RetentionNext]_allVars =>
        [\A p \in Callers :
           LET o == op[p].opp IN
           /\ CalledPortal(op[p]) /\ op[p].alone
           /\ op'[p].step = "idle" /\ crashes' = crashes
           => /\ apps'[o].status \in {"submitted", "pending"}
              /\ apps'[o].status = op[p].status /\ opps'[o].status = op[p].status
              /\ apps'[o].referenced <=> op[p].status = "submitted"]_vars
  BY <1>3
<1>5. QED
  BY <1>1, <1>2, <1>4, CrashesCounted, PTL DEF RetentionSpec, PortalCallsAreRecorded

\* The portal is given no opportunity that has an application, by a submission
\* that nothing overlapped.
THEOREM OnlyNewOnesAreSubmitted == RetentionSpec => OnlyNewIsSubmitted
<1>1. RetentionInit => Core
  BY InitCore
<1>2. Core /\ [RetentionNext]_allVars => Core'
  BY NextCore
<1>3. ASSUME Core, Counted, [RetentionNext]_allVars, NEW p \in Callers,
             portal'[op[p].opp] # portal[op[p].opp], op'[p] # op[p], op[p].alone
      PROVE  ~Applied(op[p].opp)
  <2>1. PICK q \in Callers : Step(q)
    BY <1>3, NextIs
  <2>2. p = q
    BY <1>3, <2>1, OnlyItMoves
  <2>3. Accept(p) \/ Raise(p)
    BY <1>3, <2>1, <2>2
    DEF Step, LookToSubmit, LookAgain, Record, LogSuccess, LogFailure,
        LookToPoll, Ask, Apply
  <2>4. op[p].step = "portal" /\ OpOK(op[p]) /\ View(p)
    BY <1>3, <2>3 DEF Core, Accept, Raise, At
  <2>5. QED BY <1>3, <2>4 DEF View, Relies, OpOK, Applied
<1>4. Core /\ Counted /\ [RetentionNext]_allVars =>
        [\A p \in Callers :
           portal'[op[p].opp] # portal[op[p].opp] /\ op'[p] # op[p] /\ op[p].alone
           => ~Applied(op[p].opp)]_vars
  BY <1>3
<1>5. QED
  BY <1>1, <1>2, <1>4, CrashesCounted, PTL DEF RetentionSpec, OnlyNewIsSubmitted

LEMMA ApplyDecides ==
  ASSUME Core, NEW p \in Callers, Apply(p), NEW o \in Opps,
         apps[o].status \in Final, apps'[o].status # apps[o].status
  PROVE  /\ op[p].opp = o /\ op'[p] # op[p]
         /\ op[p].kind \in {"update", "pollPortal"} \/ ~op[p].alone
<1>1. /\ op[p].step = "apply" /\ op[p] \in Ops /\ OpOK(op[p]) /\ View(p)
      /\ apps \in [Opps -> AppRows] /\ op \in [Callers -> Ops] /\ Finish(p)
  BY DEF Core, TypeOK, OpOK, AppRows, Ops, Apply, At
<1>2. op[p].opp = o
  BY <1>1 DEF Apply, OwnRows
<1>3. op'[p] # op[p]
  BY <1>1, NoOpTyped DEF Finish
<1>4. op[p].kind \in {"update", "poll", "pollPortal"}
  BY <1>1 DEF OpOK
<1>5. ASSUME op[p].kind = "poll", op[p].alone PROVE FALSE
  <2>1. op[p].status = apps[o].status
    BY <1>1, <1>2, <1>5 DEF View, Relies, LocalStatus
  <2>2. CASE apps' = apps
    BY <2>2
  <2>3. CASE apps' = [apps EXCEPT ![o].status = op[p].status,
                                  ![o].monitored = op[p].monitored]
    <3> DEFINE half == [apps[o] EXCEPT !.status = op[p].status]
    <3>1. apps'[o] = [half EXCEPT !.monitored = op[p].monitored]
      BY <1>1, <2>3 DEF AppRows
    <3>2. half \in AppRows /\ half.status = op[p].status
      BY <1>1 DEF AppRows, Ops
    <3> HIDE DEF half
    <3>3. apps'[o].status = op[p].status
      BY <3>1, <3>2 DEF AppRows
    <3>4. QED BY <2>1, <3>3
  <2>4. QED BY <1>2, <2>2, <2>3 DEF Apply
<1>6. QED BY <1>2, <1>3, <1>4, <1>5

\* A final decision is changed by staff, by the portal's answer or by a poll
\* that something overlapped.
THEOREM FinalDecisionsStand == RetentionSpec => DecisionsStand
<1>1. RetentionInit => Core
  BY InitCore
<1>2. Core /\ [RetentionNext]_allVars => Core'
  BY NextCore
<1>3. ASSUME Core, Counted, [RetentionNext]_allVars, NEW o \in Opps,
             apps[o].status \in Final, apps'[o].status # apps[o].status
      PROVE  \E p \in Callers :
               /\ At(p, "apply") /\ op[p].opp = o /\ op'[p] # op[p]
               /\ op[p].kind \in {"update", "pollPortal"} \/ ~op[p].alone
  <2>1. PICK p \in Callers : Step(p)
    BY <1>3, NextIs
  <2>2. CASE Record(p)
    <3>1. OwnRows(p) /\ Applied(o)
      BY <1>3, <2>1, StepOwnRows, Constant DEF Applied
    <3>2. QED BY <1>3, <2>2, <3>1 DEF Record, OwnRows
  <2>3. CASE Apply(p)
    BY <1>3, <2>3, ApplyDecides DEF Apply
  <2>4. CASE apps' = apps
    BY <1>3, <2>4
  <2>5. QED
    BY <2>1, <2>2, <2>3, <2>4
    DEF Step, LookToSubmit, LookAgain, Accept, Raise, LogSuccess, LogFailure,
        LookToPoll, Ask
<1>4. Core /\ Counted /\ [RetentionNext]_allVars =>
        [\A o \in Opps :
           apps[o].status \in Final /\ apps'[o].status # apps[o].status =>
             \E p \in Callers :
               /\ At(p, "apply") /\ op[p].opp = o /\ op'[p] # op[p]
               /\ op[p].kind \in {"update", "pollPortal"} \/ ~op[p].alone]_vars
  BY <1>3
<1>5. QED
  BY <1>1, <1>2, <1>4, CrashesCounted, PTL DEF RetentionSpec, DecisionsStand

-----------------------------------------------------------------------------
(* The types of the retention run's own state. *)

LEMMA NoWorkTyped == NoWork \in Works
BY Constant DEF NoWork, Works

LEMMA InitRetentionTyped ==
  ASSUME RetentionInit PROVE RetentionTypeOK
<1>1. /\ NoMail \in MailRows /\ NoTask \in TaskRows /\ NoDoc \in DocRows
      /\ NoFile \in ArchiveFiles
  BY Constant DEF NoMail, NoTask, NoDoc, NoFile, MailRows, TaskRows, DocRows,
                  ArchiveFiles
<1>2. QED
  BY <1>1, NoWorkTyped DEF RetentionInit, RetentionTypeOK

LEMMA MailTyped ==
  ASSUME RetentionTypeOK, now \in 0..MaxTime, NEW m \in Mails,
         SendMail(m) \/ RecordEvent(m)
  PROVE  mails' \in [Mails -> MailRows]
<1>1. CASE SendMail(m)
  <2> DEFINE new == [state |-> "stored", at |-> now, events |-> 1, late |-> 0]
  <2>1. new \in MailRows
    BY DEF MailRows
  <2>2. mails' = [mails EXCEPT ![m] = new]
    BY <1>1 DEF SendMail
  <2>3. QED BY <2>1, <2>2 DEF RetentionTypeOK
<1>2. CASE RecordEvent(m)
  <2> DEFINE late == IF Selected(m) THEN mails[m].late + 1 ELSE 0
             half == [mails[m] EXCEPT !.events = mails[m].events + 1]
             new == [half EXCEPT !.late = late]
  <2>1. mails[m] \in MailRows /\ mails \in [Mails -> MailRows]
    BY DEF RetentionTypeOK
  <2>2. mails' = [mails EXCEPT ![m] = new]
    BY <1>2, <2>1 DEF RecordEvent, MailRows
  <2>3. late \in Nat /\ mails[m].events + 1 \in Nat
    BY <2>1 DEF MailRows
  <2> HIDE DEF late
  <2>4. half \in MailRows
    BY <2>1, <2>3 DEF MailRows
  <2> HIDE DEF half
  <2>5. new \in MailRows
    BY <2>3, <2>4 DEF MailRows
  <2>6. QED BY <2>1, <2>2, <2>5
<1>3. QED BY <1>1, <1>2

\* What a run reads for the archive at its step x, and where it goes on.
ReadAt(x, asOf) ==
  CASE x = "document" ->
         {<<"document", d, docs[d].path>> : d \in ExpiredDocs(asOf)}
    [] x = "attempt" -> {<<"attempt", y[1], y[2]>> : y \in ExpiredAttempts(asOf)}
    [] x = "task" -> {<<"task", t, tasks[t].at>> : t \in ExpiredTasks(asOf)}
    [] x = "opportunity" ->
         {<<"opportunity", o, opps[o].at>> : o \in ExpiredOpps(asOf)}
    [] x = "event" -> {<<"mail", m, mails[m].events>> : m \in ExpiredMails(asOf)}
    [] OTHER -> {}

After(x) ==
  CASE x = "mail" -> "document" [] x = "document" -> "attempt"
    [] x = "attempt" -> "task" [] x = "task" -> "opportunity"
    [] x = "opportunity" -> "event" [] OTHER -> "write"

LEMMA ReadTyped ==
  ASSUME Core, RetentionTypeOK, NEW x, NEW asOf PROVE ReadAt(x, asOf) \subseteq ArchiveRows
<1>1. /\ \A d \in ExpiredDocs(asOf) : d \in Docs /\ docs[d].path \in 0..MaxTime
      /\ \A t \in ExpiredTasks(asOf) : t \in Tasks /\ tasks[t].at \in 0..MaxTime
      /\ \A m \in ExpiredMails(asOf) : m \in Mails /\ mails[m].events \in Nat
  BY DEF ExpiredDocs, ExpiredTasks, ExpiredMails, RetentionTypeOK, DocRows,
         TaskRows, MailRows
<1>2. /\ \A o \in ExpiredOpps(asOf) : o \in Opps /\ opps[o].at \in 0..MaxTime
      /\ \A y \in ExpiredAttempts(asOf) : y[1] \in Opps /\ y[2] \in 0..MaxTime
  BY DEF ExpiredOpps, ExpiredAttempts, Core, TypeOK
<1>3. QED BY <1>1, <1>2 DEF ReadAt, ArchiveRows

LEMMA SelectReads ==
  ASSUME Core, RetentionTypeOK, NEW p \in Callers, Select(p)
  PROVE  LET w == work[p]
             x == op[p].step
         IN  /\ x \in {"mail", "document", "attempt", "task", "opportunity", "event"}
             /\ Goto(p, After(x))
             /\ archive' = archive
             /\ work' \in [Callers -> Works]
             /\ \A q \in Callers : q # p => work'[q] = work[q]
             /\ work'[p].asOf = w.asOf /\ work'[p].paths = w.paths
             /\ work'[p].drawing = w.drawing /\ work'[p].path = w.path
             /\ work'[p].mails = IF x = "mail" THEN ExpiredMails(w.asOf) ELSE w.mails
             /\ work'[p].rows = w.rows \cup ReadAt(x, w.asOf)
<1> DEFINE w == work[p]
           x == op[p].step
<1>1. work \in [Callers -> Works] /\ w \in Works
  BY DEF RetentionTypeOK
<1>2. CASE SelectMails(p)
  <2> DEFINE found == ExpiredMails(w.asOf)
  <2>1. work' = [work EXCEPT ![p] = [w EXCEPT !.mails = found]]
    BY <1>1, <1>2 DEF SelectMails
  <2>2. found \subseteq Mails
    BY DEF ExpiredMails
  <2>3. x = "mail" /\ Goto(p, "document") /\ archive' = archive
    BY <1>2 DEF SelectMails, At
  <2>4. After(x) = "document" /\ ReadAt(x, w.asOf) = {}
    BY <2>3 DEF After, ReadAt
  <2> HIDE DEF found
  <2>5. /\ work' \in [Callers -> Works]
        /\ \A q \in Callers : q # p => work'[q] = work[q]
        /\ work'[p].asOf = w.asOf /\ work'[p].paths = w.paths
        /\ work'[p].drawing = w.drawing /\ work'[p].path = w.path
        /\ work'[p].mails = found /\ work'[p].rows = w.rows
    BY <1>1, <2>1, <2>2 DEF Works
  <2>6. QED BY <2>3, <2>4, <2>5 DEF found
<1>3. ASSUME NEW y \in {"document", "attempt", "task", "opportunity", "event"},
             Reads(p, y, ReadAt(y, w.asOf), After(y))
      PROVE  /\ x = y /\ Goto(p, After(x)) /\ archive' = archive
             /\ work' \in [Callers -> Works]
             /\ \A q \in Callers : q # p => work'[q] = work[q]
             /\ work'[p].asOf = w.asOf /\ work'[p].paths = w.paths
             /\ work'[p].drawing = w.drawing /\ work'[p].path = w.path
             /\ work'[p].mails = w.mails
             /\ work'[p].rows = w.rows \cup ReadAt(x, w.asOf)
  <2> DEFINE rows == w.rows \cup ReadAt(y, w.asOf)
  <2>1. x = y /\ Goto(p, After(x)) /\ archive' = archive
        /\ work' = [work EXCEPT ![p] = [w EXCEPT !.rows = rows]]
    BY <1>1, <1>3 DEF Reads, At
  <2>2. rows \in SUBSET ArchiveRows
    BY <1>1, ReadTyped DEF Works
  <2> HIDE DEF rows
  <2>3. /\ work' \in [Callers -> Works]
        /\ \A q \in Callers : q # p => work'[q] = work[q]
        /\ work'[p].asOf = w.asOf /\ work'[p].paths = w.paths
        /\ work'[p].drawing = w.drawing /\ work'[p].path = w.path
        /\ work'[p].mails = w.mails /\ work'[p].rows = rows
    BY <1>1, <2>1, <2>2 DEF Works
  <2>4. QED BY <2>1, <2>3 DEF rows
<1>4. SelectMails(p)
      \/ \E y \in {"document", "attempt", "task", "opportunity", "event"} :
           Reads(p, y, ReadAt(y, w.asOf), After(y))
  BY DEF Select, SelectDocs, SelectAttempts, SelectTasks, SelectOpps, SelectEvents,
         ReadAt, After
<1>5. QED BY <1>2, <1>3, <1>4 DEF SelectMails, At

\* What p's work becomes in the others of its own steps.
LEMMA WorkTyped ==
  ASSUME Core, RetentionTypeOK, NEW p \in Callers,
         \/ Draw(p) \/ Store(p) \/ Enforce(p) \/ Select(p) \/ Write(p)
         \/ Delete(p) \/ DeleteFails(p) \/ Unlink(p) \/ Killed(p)
  PROVE  /\ work' \in [Callers -> Works]
         /\ \A q \in Callers : q # p => work'[q] = work[q]
<1>1. work \in [Callers -> Works] /\ work[p] \in Works /\ now \in 0..MaxTime
      /\ Second[now] \in 0..MaxTime
  BY RetentionAssumption DEF RetentionTypeOK, Core, TypeOK, RetentionAssumption
<1>2. CASE Draw(p)
  <2>1. PICK d \in Docs :
          work' = [work EXCEPT ![p].drawing = {d}, ![p].path = Second[now]]
    BY <1>2 DEF Draw
  <2> DEFINE half == [work[p] EXCEPT !.drawing = {d}]
             new == [half EXCEPT !.path = Second[now]]
  <2>2. work' = [work EXCEPT ![p] = new]
    BY <1>1, <2>1 DEF Works
  <2>3. half \in Works
    BY <1>1 DEF Works
  <2> HIDE DEF half
  <2>4. new \in Works
    BY <1>1, <2>3 DEF Works
  <2>5. QED BY <1>1, <2>2, <2>4
<1>3. CASE Store(p) \/ DeleteFails(p) \/ Killed(p)
  BY <1>1, <1>3, NoWorkTyped DEF Store, DeleteFails, Killed
<1>4. CASE Enforce(p)
  <2>1. work' = [work EXCEPT ![p] = [work[p] EXCEPT !.asOf = now]]
    BY <1>1, <1>4 DEF Enforce
  <2>2. [work[p] EXCEPT !.asOf = now] \in Works
    BY <1>1 DEF Works
  <2>3. QED BY <1>1, <2>1, <2>2
<1>5. CASE Delete(p)
  <2> DEFINE new == [NoWork EXCEPT !.paths = SelectedPaths(p)]
  <2>1. work' = [work EXCEPT ![p] = new]
    BY <1>5 DEF Delete
  <2>2. SelectedPaths(p) \subseteq 0..MaxTime
    BY DEF SelectedPaths
  <2>3. new \in Works
    BY <2>2, NoWorkTyped DEF Works
  <2>4. QED BY <1>1, <2>1, <2>3
<1>6. CASE Unlink(p)
  <2>1. PICK path : work' = [work EXCEPT ![p].paths = @ \ {path}]
    BY <1>6 DEF Unlink
  <2> DEFINE new == [work[p] EXCEPT !.paths = @ \ {path}]
  <2>2. work' = [work EXCEPT ![p] = new]
    BY <1>1, <2>1
  <2>3. new \in Works
    BY <1>1 DEF Works
  <2>4. QED BY <1>1, <2>2, <2>3
<1>7. CASE Select(p)
  BY <1>7, SelectReads
<1>8. CASE Write(p)
  BY <1>1, <1>8 DEF Write
<1>9. QED BY <1>2, <1>3, <1>4, <1>5, <1>6, <1>7, <1>8

LEMMA DocsTyped ==
  ASSUME Core, RetentionTypeOK, NEW p \in Callers, Store(p) \/ Delete(p)
  PROVE  docs' \in [Docs -> DocRows]
<1>1. /\ docs \in [Docs -> DocRows] /\ work[p] \in Works /\ now \in 0..MaxTime
  BY DEF RetentionTypeOK, Core, TypeOK
<1>2. CASE Store(p)
  <2>1. PICK d \in work[p].drawing :
          docs' = [docs EXCEPT ![d] = [state |-> "stored", at |-> now,
                                       path |-> work[p].path]]
    BY <1>2 DEF Store
  <2>2. [state |-> "stored", at |-> now, path |-> work[p].path] \in DocRows
    BY <1>1 DEF Works, DocRows
  <2>3. QED BY <1>1, <2>1, <2>2
<1>3. CASE Delete(p)
  <2>1. \A d \in Docs : [docs[d] EXCEPT !.state = "deleted"] \in DocRows
    BY <1>1 DEF DocRows
  <2>2. docs' = [d \in Docs |-> IF d \in ExpiredDocs(DeletedBy(p))
                   THEN [docs[d] EXCEPT !.state = "deleted"] ELSE docs[d]]
    BY <1>3 DEF Delete
  <2>3. QED BY <1>1, <2>1, <2>2
<1>4. QED BY <1>2, <1>3

LEMMA WriteTyped ==
  ASSUME RetentionTypeOK, NEW p \in Callers, Write(p)
  PROVE  archive' \in [0..MaxTime -> ArchiveFiles]
<1> DEFINE new == [rows |-> work[p].rows, by |-> {p}]
<1>1. new \in ArchiveFiles
  BY DEF RetentionTypeOK, Works, ArchiveFiles
<1>2. archive' = [archive EXCEPT ![FileOf(p)] = new]
  BY DEF Write
<1>3. QED BY <1>1, <1>2 DEF RetentionTypeOK

\* A run that begins, reads or writes leaves all rows as they are.
LEMMA RunLeavesRows ==
  ASSUME NEW p \in Callers, Enforce(p) \/ Select(p) \/ Write(p)
  PROVE  UNCHANGED <<opps, apps, attempts, now, mails, tasks, docs, files>>
BY SelectRunsOn DEF Enforce, Enter, RunsOn

LEMMA NextRetentionTyped ==
  ASSUME Core, RetentionTypeOK, [RetentionNext]_allVars
  PROVE  RetentionTypeOK'
<1>1. now \in 0..MaxTime /\ Second[now] \in 0..MaxTime
  BY RetentionAssumption DEF Core, TypeOK, RetentionAssumption
<1>2. CASE UNCHANGED retentionVars
  BY <1>2 DEF RetentionTypeOK, retentionVars
<1>3. ASSUME NEW m \in Mails, SendMail(m) \/ RecordEvent(m) PROVE RetentionTypeOK'
  BY <1>1, <1>3, MailTyped DEF SendMail, RecordEvent, Starts, RetentionTypeOK
<1>4. ASSUME NEW t \in Tasks, UpdateTask(t) PROVE RetentionTypeOK'
  <2>1. [state |-> "done", at |-> now] \in TaskRows
    BY <1>1 DEF TaskRows
  <2>2. tasks' \in [Tasks -> TaskRows]
    BY <1>4, <2>1 DEF UpdateTask, RetentionTypeOK
  <2>3. QED BY <1>4, <2>2 DEF UpdateTask, Starts, RetentionTypeOK
<1>5. ASSUME NEW p \in Callers,
             \/ Draw(p) \/ Store(p) \/ Enforce(p) \/ Select(p) \/ Write(p)
             \/ Delete(p) \/ DeleteFails(p) \/ Unlink(p) \/ Killed(p)
      PROVE  RetentionTypeOK'
  <2>1. work' \in [Callers -> Works]
    BY <1>5, WorkTyped
  <2>2. docs' \in [Docs -> DocRows]
    <3>1. CASE Store(p) \/ Delete(p)
      BY <3>1, DocsTyped
    <3>2. CASE docs' = docs
      BY <3>2 DEF RetentionTypeOK
    <3>3. QED
      BY <1>5, <3>1, <3>2, RunLeavesRows DEF Draw, DeleteFails, Unlink, Killed
  <2>3. files' \subseteq 0..MaxTime
    BY <1>1, <1>5, RunLeavesRows
    DEF Draw, Store, Delete, DeleteFails, Unlink, Killed, RetentionTypeOK
  <2>4. mails' \in [Mails -> MailRows] /\ tasks' \in [Tasks -> TaskRows]
    <3>1. CASE Delete(p)
      <4>1. /\ \A m \in Mails : [mails[m] EXCEPT !.state = "deleted"] \in MailRows
            /\ \A t \in Tasks : [tasks[t] EXCEPT !.state = "deleted"] \in TaskRows
        BY DEF RetentionTypeOK, MailRows, TaskRows
      <4>2. QED BY <3>1, <4>1 DEF Delete, RetentionTypeOK
    <3>2. CASE UNCHANGED <<mails, tasks>>
      BY <3>2 DEF RetentionTypeOK
    <3>3. QED
      BY <1>5, <3>1, <3>2, RunLeavesRows DEF Draw, Store, DeleteFails, Unlink, Killed
  <2>5. archive' \in [0..MaxTime -> ArchiveFiles]
    <3>1. CASE Write(p)
      BY <3>1, WriteTyped
    <3>2. CASE archive' = archive
      BY <3>2 DEF RetentionTypeOK
    <3>3. QED
      BY <1>5, <3>1, <3>2, SelectReads
      DEF Draw, Store, Enforce, Delete, DeleteFails, Unlink, Killed, Starts
  <2>6. QED BY <2>1, <2>2, <2>3, <2>4, <2>5 DEF RetentionTypeOK
<1>6. QED
  BY <1>2, <1>3, <1>4, <1>5 DEF RetentionNext, allVars, retentionVars

-----------------------------------------------------------------------------
(* The documents and their files. *)

\* A document whose file has the name x is deleted; x is there unless one is.
Gone(x) == \E d \in Docs : docs[d].state = "deleted" /\ docs[d].path = x
HasFile(x) == x \in files \/ Gone(x)

\* The documents that w holds are deleted, or will be by its run.
Doomed(w) ==
  \A d \in Docs, x \in 0..MaxTime : <<"document", d, x>> \in w.rows =>
    /\ docs[d].path = x
    /\ docs[d].state = "deleted" \/ d \in ExpiredDocs(w.asOf)

Filed ==
  /\ \A d \in Docs : docs[d].state = "stored" => HasFile(docs[d].path)
  /\ \A p \in Callers : \A d \in work[p].drawing :
       /\ docs[d].state = "none" /\ HasFile(work[p].path)
       /\ \A q \in Callers : d \in work[q].drawing => q = p
  /\ \A p \in Callers : /\ \A x \in work[p].paths : Gone(x)
                        /\ op[p].step \in RetentionSteps => Doomed(work[p])

\* A stored document stays, or is deleted, and a deleted one stays so.
DocsGrow ==
  \A d \in Docs : docs[d].state \in {"stored", "deleted"} =>
    /\ docs'[d].path = docs[d].path /\ docs'[d].at = docs[d].at
    /\ \/ docs'[d].state = docs[d].state
       \/ docs'[d].state = "deleted"

LEMMA GoneStays ==
  ASSUME DocsGrow, NEW x, Gone(x) PROVE Gone(x)'
BY DEF DocsGrow, Gone

LEMMA DoomedStays ==
  ASSUME DocsGrow, NEW w, Doomed(w) PROVE Doomed(w)'
<1> SUFFICES ASSUME NEW d \in Docs, NEW x \in 0..MaxTime,
                    <<"document", d, x>> \in w.rows
             PROVE  /\ docs'[d].path = x
                    /\ \/ docs'[d].state = "deleted"
                       \/ /\ docs'[d].state = "stored"
                          /\ Expired(docs'[d].at, "document", w.asOf)
  BY DEF Doomed, ExpiredDocs, Expired
<1>1. /\ docs[d].path = x
      /\ \/ docs[d].state = "deleted"
         \/ docs[d].state = "stored" /\ Expired(docs[d].at, "document", w.asOf)
  BY DEF Doomed, ExpiredDocs
<1>2. QED BY <1>1 DEF DocsGrow

LEMMA NextDocsGrow ==
  ASSUME RetentionTypeOK, Filed, [RetentionNext]_allVars PROVE DocsGrow
<1>1. CASE docs' = docs
  BY <1>1 DEF DocsGrow
<1>2. ASSUME NEW p \in Callers, Store(p) PROVE DocsGrow
  BY <1>2 DEF Store, Filed, DocsGrow, RetentionTypeOK
<1>3. ASSUME NEW p \in Callers, Delete(p) PROVE DocsGrow
  <2>1. docs' = [d \in Docs |-> IF d \in ExpiredDocs(DeletedBy(p))
                   THEN [docs[d] EXCEPT !.state = "deleted"] ELSE docs[d]]
    BY <1>3 DEF Delete
  <2>2. \A d \in Docs : docs[d] \in DocRows
    BY DEF RetentionTypeOK
  <2>3. ASSUME NEW d \in Docs
        PROVE  docs'[d] = docs[d] \/ docs'[d] = [docs[d] EXCEPT !.state = "deleted"]
    BY <2>1
  <2>4. QED BY <2>2, <2>3 DEF DocsGrow, DocRows
<1>4. QED
  BY <1>1, <1>2, <1>3, RunLeavesRows
  DEF RetentionNext, SendMail, RecordEvent, UpdateTask, Draw, DeleteFails,
      Unlink, Killed, allVars, retentionVars

\* Operations of Applications are in no retention run, and change none.
LEMMA EnterElse ==
  ASSUME Core, NEW p \in Callers, NEW new, Enter(p, new), NEW q \in Callers, q # p
  PROVE  op'[q].step = op[q].step /\ (op'[q].alone => op[q].alone)
<1>1. op[q] \in Ops
  BY DEF Core, TypeOK, Ops
<1> DEFINE over == /\ op[q].step # "idle"
                   /\ op[q].opp = new.opp \/ "retain" \in {op[q].kind, new.kind}
           e == ~over
<1>2. op'[q] = [op[q] EXCEPT !.alone = op[q].alone /\ e]
  BY DEF Enter, Entered
<1> HIDE DEF over, e
<1>3. op'[q].alone = (op[q].alone /\ e) /\ op'[q].step = op[q].step
  BY <1>1, <1>2 DEF Ops
<1>4. QED BY <1>3

LEMMA EnterSelf ==
  ASSUME NEW p \in Callers, NEW new, Begins(new), Enter(p, new)
  PROVE  op'[p].step = new.step /\ op[p].step = "idle"
<1> DEFINE first == op'[p].alone
<1>1. PICK b : op'[p] = [new EXCEPT !.alone = b]
  BY DEF Enter, Entered
<1>2. QED BY <1>1 DEF Begins, OpOK, Ops, Enter, At

LEMMA OperateRuns ==
  ASSUME Core, Operate, NEW q \in Callers, op'[q].step \in RetentionSteps
  PROVE  op'[q].step = op[q].step /\ (op'[q].alone => op[q].alone)
<1>1. CASE op' = op
  BY <1>1
<1>2. ASSUME NEW p \in Callers, Begin(p)
      PROVE  op'[q].step = op[q].step /\ (op'[q].alone => op[q].alone)
  <2>1. PICK new : Begins(new) /\ Enter(p, new) /\ new.step \in {"look", "apply"}
    BY <1>2, BeginEnters
  <2>2. q # p
    BY <2>1, EnterSelf DEF RetentionSteps
  <2>3. QED BY <2>1, <2>2, EnterElse
<1>3. ASSUME NEW p \in Callers, Step(p)
      PROVE  op'[q].step = op[q].step /\ (op'[q].alone => op[q].alone)
  <2>1. PICK n : op' = [op EXCEPT ![p] = n] /\ (n = NoOp \/ Continues(op[p], n))
    BY <1>3, StepMoves DEF Moves
  <2>2. n.step \notin RetentionSteps
    BY <2>1, NoOpTyped DEF Continues, RetentionSteps
  <2>3. QED BY <2>1, <2>2 DEF Core, TypeOK
<1>4. QED BY <1>1, <1>2, <1>3 DEF Operate, Discover, Tick

\* A step of p that draws nothing, and keeps the files of what is not deleted.
LEMMA RunFiled ==
  ASSUME Core, RetentionTypeOK, Filed, DocsGrow, NEW p \in Callers,
         \A q \in Callers : q # p =>
           /\ work'[q] = work[q]
           /\ op'[q].step \in RetentionSteps => op'[q].step = op[q].step,
         work'[p].drawing \subseteq work[p].drawing,
         work'[p].drawing # {} => work'[p].path = work[p].path,
         \A d \in Docs : docs[d].state = "none" => docs'[d].state = "none",
         \A x : HasFile(x) => HasFile(x)',
         \A x \in work'[p].paths : Gone(x)',
         op'[p].step \in RetentionSteps => Doomed(work[p])'
  PROVE  Filed'
<1>1. work \in [Callers -> Works]
  BY DEF RetentionTypeOK
<1>2. ASSUME NEW d \in Docs, docs'[d].state = "stored" PROVE HasFile(docs[d].path)'
  <2>1. docs[d].state = "stored" /\ docs'[d].path = docs[d].path
    BY <1>2 DEF DocsGrow, RetentionTypeOK, DocRows
  <2>2. QED BY <2>1 DEF Filed, HasFile, Gone
<1>3. ASSUME NEW q \in Callers, NEW d \in work'[q].drawing
      PROVE  /\ docs'[d].state = "none" /\ HasFile(work[q].path)'
             /\ \A r \in Callers : d \in work'[r].drawing => r = q
  <2>1. d \in work[q].drawing /\ work'[q].path = work[q].path /\ d \in Docs
    BY <1>1, <1>3 DEF Works
  <2>2. docs'[d].state = "none"
    BY <2>1 DEF Filed
  <2>3. HasFile(work[q].path)'
    BY <2>1 DEF Filed, HasFile, Gone
  <2>4. \A r \in Callers : d \in work'[r].drawing => r = q
    BY <2>1 DEF Filed
  <2>5. QED BY <2>2, <2>3, <2>4
<1>4. ASSUME NEW q \in Callers, q # p
      PROVE  /\ \A x \in work'[q].paths : Gone(x)'
             /\ op'[q].step \in RetentionSteps => Doomed(work[q])'
  <2>1. \A x \in work'[q].paths : Gone(x)'
    BY <1>4, GoneStays DEF Filed
  <2>2. ASSUME op'[q].step \in RetentionSteps PROVE Doomed(work[q])'
    <3>1. PICK w : w = work[q]
      OBVIOUS
    <3>2. Doomed(w)
      BY <1>4, <2>2, <3>1 DEF Filed
    <3>3. Doomed(w)'
      BY <3>2, DoomedStays
    <3>4. QED BY <1>4, <3>1, <3>3 DEF Doomed, ExpiredDocs, Expired
  <2>3. QED BY <2>1, <2>2
<1>5. QED BY <1>2, <1>3, <1>4 DEF Filed

LEMMA SameWorkFiled ==
  ASSUME Filed, UNCHANGED <<docs, files, work>>,
         \A p \in Callers : op'[p].step \in RetentionSteps => op'[p].step = op[p].step
  PROVE  Filed'
<1>1. \A x : /\ Gone(x)' <=> Gone(x)
             /\ HasFile(x)' <=> HasFile(x)
  BY DEF Gone, HasFile
<1>2. \A p \in Callers : Doomed(work[p])' <=> Doomed(work[p])
  BY DEF Doomed, ExpiredDocs, Expired
<1>3. QED BY <1>1, <1>2 DEF Filed, HasFile, Gone

LEMMA DrawFiled ==
  ASSUME RetentionTypeOK, Filed, NEW p \in Callers, Draw(p)
  PROVE  Filed'
<1>1. PICK d \in Docs :
        /\ docs[d].state = "none" /\ \A q \in Callers : d \notin work[q].drawing
        /\ work' = [work EXCEPT ![p].drawing = {d}, ![p].path = Second[now]]
  BY DEF Draw
<1>2. /\ work \in [Callers -> Works] /\ work[p] \in Works
      /\ UNCHANGED <<docs, op>> /\ files' = files \cup {Second[now]}
      /\ work[p] = NoWork /\ op[p].step = "idle"
  BY DEF Draw, Starts, RetentionTypeOK, Free, At
<1>3. /\ work'[p].drawing = {d} /\ work'[p].path = Second[now]
      /\ work'[p].paths = {}
      /\ \A q \in Callers : q # p => work'[q] = work[q]
  BY <1>1, <1>2 DEF Works, NoWork
<1>4. /\ \A x : HasFile(x) => HasFile(x)'
      /\ \A x : Gone(x) => Gone(x)'
  BY <1>2 DEF HasFile, Gone
<1>5. \A e \in Docs : docs'[e].state = "stored" => HasFile(docs[e].path)'
  BY <1>2, <1>4 DEF Filed, HasFile, Gone
<1>6. ASSUME NEW q \in Callers, NEW e \in work'[q].drawing
      PROVE  /\ docs'[e].state = "none" /\ HasFile(work[q].path)'
             /\ \A r \in Callers : e \in work'[r].drawing => r = q
  <2>1. CASE q = p
    BY <1>1, <1>2, <1>3, <1>6, <2>1 DEF HasFile
  <2>2. CASE q # p
    BY <1>1, <1>2, <1>3, <1>6, <2>2 DEF Filed, HasFile, Gone
  <2>3. QED BY <2>1, <2>2
<1>7. ASSUME NEW q \in Callers
      PROVE  /\ \A x \in work'[q].paths : Gone(x)'
             /\ op'[q].step \in RetentionSteps => Doomed(work[q])'
  <2>1. \A x \in work'[q].paths : Gone(x)'
    BY <1>3, <1>4 DEF Filed
  <2>2. ASSUME op'[q].step \in RetentionSteps PROVE Doomed(work[q])'
    <3>1. q # p /\ op[q].step \in RetentionSteps
      BY <1>2, <2>2 DEF RetentionSteps
    <3>2. work'[q] = work[q] /\ Doomed(work[q])
      BY <1>3, <3>1 DEF Filed
    <3>3. QED BY <1>2, <3>2 DEF Doomed, ExpiredDocs, Expired
  <2>3. QED BY <2>1, <2>2
<1>8. QED BY <1>5, <1>6, <1>7 DEF Filed

LEMMA StoreFiled ==
  ASSUME RetentionTypeOK, Filed, DocsGrow, NEW p \in Callers, Store(p)
  PROVE  Filed'
<1>1. PICK d \in work[p].drawing :
        docs' = [docs EXCEPT ![d] = [state |-> "stored", at |-> now,
                                     path |-> work[p].path]]
  BY DEF Store
<1>2. /\ work \in [Callers -> Works] /\ d \in Docs /\ docs \in [Docs -> DocRows]
      /\ work' = [work EXCEPT ![p] = NoWork] /\ UNCHANGED <<op, files>>
  BY DEF Store, RetentionTypeOK, Works, vars
<1>3. /\ work'[p].drawing = {} /\ work'[p].paths = {} /\ work'[p].rows = {}
      /\ \A q \in Callers : q # p => work'[q] = work[q]
  BY <1>2 DEF NoWork
<1>4. /\ docs'[d].state = "stored" /\ docs'[d].path = work[p].path
      /\ \A e \in Docs : e # d => docs'[e] = docs[e]
  BY <1>1, <1>2
<1>5. \A x : HasFile(x) => HasFile(x)'
  BY <1>2, GoneStays DEF HasFile
<1>6. \A e \in Docs : docs'[e].state = "stored" => HasFile(docs[e].path)'
  BY <1>1, <1>4, <1>5 DEF Filed, HasFile, Gone
<1>7. ASSUME NEW q \in Callers, NEW e \in work'[q].drawing
      PROVE  /\ docs'[e].state = "none" /\ HasFile(work[q].path)'
             /\ \A r \in Callers : e \in work'[r].drawing => r = q
  <2>1. q # p /\ e \in work[q].drawing /\ work'[q] = work[q]
    BY <1>3, <1>7
  <2>2. e # d /\ e \in Docs
    BY <1>1, <1>2, <2>1 DEF Filed, Works
  <2>3. docs'[e].state = "none"
    BY <1>4, <2>1, <2>2 DEF Filed
  <2>4. HasFile(work[q].path)'
    BY <1>5, <2>1 DEF Filed, HasFile, Gone
  <2>5. \A r \in Callers : e \in work'[r].drawing => r = q
    BY <1>3, <2>1 DEF Filed
  <2>6. QED BY <2>3, <2>4, <2>5
<1>8. ASSUME NEW q \in Callers
      PROVE  /\ \A x \in work'[q].paths : Gone(x)'
             /\ op'[q].step \in RetentionSteps => Doomed(work[q])'
  <2>1. \A x \in work'[q].paths : Gone(x)'
    BY <1>3, GoneStays DEF Filed
  <2>2. CASE q = p
    BY <1>3, <2>1, <2>2 DEF Doomed
  <2>3. CASE q # p
    <3>1. PICK w : w = work[q]
      OBVIOUS
    <3>2. op[q].step \in RetentionSteps => Doomed(w)'
      BY <3>1, DoomedStays DEF Filed
    <3>3. QED BY <1>2, <1>3, <2>1, <2>3, <3>1, <3>2 DEF Doomed, ExpiredDocs, Expired
  <2>4. QED BY <2>2, <2>3
<1>9. QED BY <1>6, <1>7, <1>8 DEF Filed

\* A run that begins holds nothing; one that reads holds what is due.
LEMMA EnforceFiled ==
  ASSUME Core, RetentionTypeOK, Filed, DocsGrow, NEW p \in Callers, Enforce(p)
  PROVE  Filed'
<1>1. /\ work \in [Callers -> Works] /\ work[p] = NoWork
      /\ work' = [work EXCEPT ![p] = [NoWork EXCEPT !.asOf = now]]
      /\ UNCHANGED <<docs, files>>
  BY DEF Enforce, Free, RetentionTypeOK
<1>2. /\ work'[p].rows = {} /\ work'[p].drawing = {} /\ work'[p].paths = {}
      /\ \A q \in Callers : q # p => work'[q] = work[q]
  BY <1>1 DEF NoWork
<1>3. ASSUME NEW q \in Callers, q # p PROVE op'[q].step = op[q].step
  BY <1>3, EnforceEnters, EnterElse
<1>4. \A x : HasFile(x) => HasFile(x)'
  BY <1>1 DEF HasFile, Gone
<1>5. Doomed(work[p])'
  BY <1>2 DEF Doomed
<1>6. QED BY <1>1, <1>2, <1>3, <1>4, <1>5, RunFiled

LEMMA SelectFiled ==
  ASSUME Core, RetentionTypeOK, Filed, DocsGrow, NEW p \in Callers,
         Select(p) \/ Write(p)
  PROVE  Filed'
<1>1. /\ work \in [Callers -> Works] /\ work' \in [Callers -> Works]
      /\ UNCHANGED <<docs, files>>
      /\ \A q \in Callers : q # p => work'[q] = work[q]
  BY WorkTyped, RunLeavesRows DEF RetentionTypeOK
<1>2. op[p].step \in RetentionSteps /\ op \in [Callers -> Ops]
      /\ \A q \in Callers : q # p => op'[q] = op[q]
  BY SelectRunsOn DEF RunsOn, Goto, Core, TypeOK, Ops
<1>3. /\ work'[p].drawing = work[p].drawing /\ work'[p].path = work[p].path
      /\ work'[p].paths = work[p].paths /\ work'[p].asOf = work[p].asOf
      /\ \A d \in Docs, x \in 0..MaxTime : <<"document", d, x>> \in work'[p].rows =>
           \/ <<"document", d, x>> \in work[p].rows
           \/ d \in ExpiredDocs(work[p].asOf) /\ docs[d].path = x
  <2>1. CASE Write(p)
    BY <2>1 DEF Write
  <2>2. CASE Select(p)
    <3>1. ASSUME NEW d \in Docs, NEW x \in 0..MaxTime,
                 <<"document", d, x>> \in ReadAt(op[p].step, work[p].asOf)
          PROVE  d \in ExpiredDocs(work[p].asOf) /\ docs[d].path = x
      BY <3>1 DEF ReadAt
    <3>2. QED BY <2>2, <3>1, SelectReads
  <2>3. QED BY <2>1, <2>2
<1>4. Doomed(work[p])'
  <2>1. Doomed(work[p])
    BY <1>2 DEF Filed
  <2>2. QED BY <1>1, <1>3, <2>1 DEF Doomed, ExpiredDocs, Expired
<1>5. /\ \A x : HasFile(x) => HasFile(x)'
      /\ \A x \in work'[p].paths : Gone(x)'
  BY <1>1, <1>3 DEF HasFile, Gone, Filed
<1>6. QED BY <1>1, <1>2, <1>3, <1>4, <1>5, RunFiled

LEMMA DeleteFiled ==
  ASSUME Core, RetentionTypeOK, Filed, DocsGrow, NEW p \in Callers, Delete(p)
  PROVE  Filed'
<1>1. /\ op \in [Callers -> Ops] /\ work \in [Callers -> Works]
      /\ UNCHANGED files /\ Finish(p) /\ op[p].step = "delete"
      /\ docs \in [Docs -> DocRows]
      /\ work' = [work EXCEPT ![p] = [NoWork EXCEPT !.paths = SelectedPaths(p)]]
      /\ docs' = [d \in Docs |-> IF d \in ExpiredDocs(work[p].asOf)
                     THEN [docs[d] EXCEPT !.state = "deleted"] ELSE docs[d]]
  BY DEF Core, TypeOK, Ops, Delete, DeletedBy, RetentionTypeOK, At
<1>2. op'[p] = NoOp /\ \A q \in Callers : q # p => op'[q] = op[q]
  BY <1>1 DEF Finish
<1>3. /\ work'[p].drawing = {} /\ work'[p].paths = SelectedPaths(p)
      /\ \A q \in Callers : q # p => work'[q] = work[q]
  BY <1>1 DEF NoWork
<1>4. ASSUME NEW d \in Docs
      PROVE  /\ docs[d].state = "none" => docs'[d] = docs[d]
             /\ d \in ExpiredDocs(work[p].asOf) =>
                  docs'[d].state = "deleted" /\ docs'[d].path = docs[d].path
  BY <1>1 DEF ExpiredDocs, DocRows
<1>5. ASSUME NEW x \in work'[p].paths PROVE Gone(x)'
  <2>1. PICK d \in Docs : x \in 0..MaxTime /\ <<"document", d, x>> \in work[p].rows
    BY <1>3, <1>5 DEF SelectedPaths
  <2>2. Doomed(work[p])
    BY <1>1 DEF Filed, RetentionSteps
  <2>3. docs[d].path = x
        /\ (docs[d].state = "deleted" \/ d \in ExpiredDocs(work[p].asOf))
    BY <2>1, <2>2 DEF Doomed
  <2>4. CASE docs[d].state = "deleted"
    BY <2>3, <2>4, GoneStays DEF Gone
  <2>5. CASE d \in ExpiredDocs(work[p].asOf)
    BY <1>4, <2>3, <2>5 DEF Gone
  <2>6. QED BY <2>3, <2>4, <2>5
<1>6. \A x : HasFile(x) => HasFile(x)'
  BY <1>1, GoneStays DEF HasFile
<1>7. op'[p].step \notin RetentionSteps
  BY <1>2, NoOpTyped DEF RetentionSteps
<1>8. QED BY <1>2, <1>3, <1>4, <1>5, <1>6, <1>7, RunFiled

LEMMA EndFiled ==
  ASSUME Core, RetentionTypeOK, Filed, DocsGrow, NEW p \in Callers,
         DeleteFails(p) \/ Killed(p) \/ Unlink(p)
  PROVE  Filed'
<1>1. CASE DeleteFails(p) \/ Killed(p)
  <2>1. /\ op \in [Callers -> Ops] /\ work \in [Callers -> Works]
        /\ UNCHANGED <<docs, files>> /\ Finish(p)
        /\ work' = [work EXCEPT ![p] = NoWork]
    BY <1>1 DEF Core, TypeOK, Ops, DeleteFails, Killed, RetentionTypeOK
  <2>2. /\ work'[p].drawing = {} /\ work'[p].paths = {}
        /\ \A q \in Callers : q # p => work'[q] = work[q] /\ op'[q] = op[q]
        /\ op'[p].step \notin RetentionSteps
    BY <2>1, NoOpTyped DEF NoWork, Finish, RetentionSteps
  <2>3. \A x : HasFile(x) => HasFile(x)'
    BY <2>1 DEF HasFile, Gone
  <2>4. QED BY <2>1, <2>2, <2>3, RunFiled
<1>2. CASE Unlink(p)
  <2>1. PICK x \in work[p].paths : /\ files' = files \ {x}
                                   /\ work' = [work EXCEPT ![p].paths = @ \ {x}]
    BY <1>2 DEF Unlink, ToUnlink
  <2>2. /\ UNCHANGED <<docs, op>> /\ op[p].step = "idle"
        /\ work \in [Callers -> Works] /\ work[p] \in Works
    BY <1>2 DEF Unlink, ToUnlink, At, vars, RetentionTypeOK
  <2>3. work' = [work EXCEPT ![p] = [work[p] EXCEPT !.paths = @ \ {x}]]
    BY <2>1, <2>2
  <2>4. /\ work'[p].drawing = work[p].drawing /\ work'[p].path = work[p].path
        /\ work'[p].paths \subseteq work[p].paths
        /\ \A q \in Callers : q # p => work'[q] = work[q]
    BY <2>2, <2>3 DEF Works
  <2>5. Gone(x) /\ \A y : Gone(y) => Gone(y)'
    BY <2>1, <2>2 DEF Filed, Gone
  <2>6. \A y : HasFile(y) => HasFile(y)'
    BY <2>1, <2>5 DEF HasFile
  <2>7. \A y \in work'[p].paths : Gone(y)'
    BY <2>4, <2>5 DEF Filed
  <2>8. QED BY <2>2, <2>4, <2>6, <2>7, RunFiled DEF RetentionSteps
<1>3. QED BY <1>1, <1>2

LEMMA NextFiled ==
  ASSUME Core, RetentionTypeOK, Filed, [RetentionNext]_allVars
  PROVE  Filed'
<1>1. DocsGrow
  BY NextDocsGrow
<1>2. CASE UNCHANGED allVars
  BY <1>2, SameWorkFiled DEF allVars, vars, retentionVars
<1>3. CASE Operate /\ UNCHANGED retentionVars
  BY <1>3, OperateRuns, SameWorkFiled DEF retentionVars
<1>4. ASSUME \/ \E m \in Mails : SendMail(m) \/ RecordEvent(m)
             \/ \E t \in Tasks : UpdateTask(t)
      PROVE  Filed'
  <2>1. UNCHANGED <<op, docs, files, work>>
    BY <1>4 DEF SendMail, RecordEvent, UpdateTask, Starts
  <2>2. QED BY <2>1, SameWorkFiled
<1>5. QED
  BY <1>1, <1>2, <1>3, <1>4, DrawFiled, StoreFiled, EnforceFiled, SelectFiled,
     DeleteFiled, EndFiled DEF RetentionNext

\* The rows a retention run reads and deletes, its selection, the files and the
\* archives keep their types, also where a run is rolled back or its process
\* dies between two of its steps.
THEOREM RetentionTypeCorrect == RetentionSpec => []RetentionTypeOK
<1>1. RetentionInit => Core /\ RetentionTypeOK
  BY InitCore, InitRetentionTyped
<1>2. Core /\ RetentionTypeOK /\ [RetentionNext]_allVars => Core' /\ RetentionTypeOK'
  BY NextCore, NextRetentionTyped
<1>3. QED BY <1>1, <1>2, PTL DEF RetentionSpec

\* A document that is listed has its file, unless a deleted one had it too,
\* also when a run is rolled back or its process dies.
THEOREM ListedDocumentsHaveFiles == RetentionSpec => []DocumentsHaveFiles
<1> DEFINE Inv == Core /\ RetentionTypeOK /\ Filed
<1>1. RetentionInit => Inv
  <2>1. RetentionInit => Filed
    BY NoOpTyped DEF RetentionInit, Init, Filed, NoWork, NoDoc, RetentionSteps
  <2>2. QED BY <2>1, InitCore, InitRetentionTyped
<1>2. Inv /\ [RetentionNext]_allVars => Inv'
  BY NextCore, NextRetentionTyped, NextFiled
<1>3. Inv => DocumentsHaveFiles
  BY DEF Filed, HasFile, Gone, DocumentsHaveFiles
<1>4. QED BY <1>1, <1>2, <1>3, PTL DEF RetentionSpec

-----------------------------------------------------------------------------
(* What a run has read, and what it has written.                           *)

\* A process makes a document between operations.
Busy == \A p \in Callers : op[p].step # "idle" => work[p].drawing = {}

\* The steps of a run that has read the rows of a kind.
Past(kind) ==
  CASE kind = "document" ->
         {"attempt", "task", "opportunity", "event", "write", "delete"}
    [] kind = "attempt" -> {"task", "opportunity", "event", "write", "delete"}
    [] kind = "task" -> {"opportunity", "event", "write", "delete"}
    [] OTHER -> {"write", "delete"}

\* A run that selected w and is at x has read what it will delete of the tables
\* it has been through; of the opportunities, if nothing overlapped it.
KeptBy(w, x, alone) ==
  /\ alone => \A o \in Opps, at \in 0..MaxTime :
       <<"opportunity", o, at>> \in w.rows => Stored(o) /\ opps[o].at = at
  /\ x \in Past("document") =>
       \A d \in ExpiredDocs(w.asOf) : <<"document", d, docs[d].path>> \in w.rows
  /\ x \in Past("attempt") => \A o \in Opps : \A a \in attempts[o] :
       Expired(a.at, "attempt", w.asOf) => <<"attempt", o, a.at>> \in w.rows
  /\ x \in Past("task") =>
       \A t \in ExpiredTasks(w.asOf) : <<"task", t, tasks[t].at>> \in w.rows
  /\ \A m \in w.mails :
       /\ mails[m].state # "none"
       /\ mails[m].state = "stored" =>
            /\ Expired(mails[m].at, "mail", w.asOf)
            /\ x \in Past("mail") =>
                 \E n \in (mails[m].events - mails[m].late)..mails[m].events :
                   <<"mail", m, n>> \in w.rows

KeptAt(p) ==
  work[p].asOf <= now /\ KeptBy(work[p], op[p].step, op[p].alone)

Kept == \A p \in Callers : op[p].step \in RetentionSteps => KeptAt(p)

WrittenAt(p) ==
  At(p, "delete") /\ ~Replaced(p) => work[p].rows \subseteq archive[FileOf(p)].rows

Written == \A p \in Callers : WrittenAt(p)

\* What a step may do to the rows that the run at x selects.
Leaves(w, x, alone) ==
  /\ alone => \A o \in Opps : Stored(o) =>
       opps'[o].status # "none" /\ opps'[o].at = opps[o].at
  /\ \A o \in Opps : \A a \in attempts'[o] : a \in attempts[o] \/ a.at = now
  /\ \A m \in w.mails : mails[m].state # "none" =>
       /\ mails'[m].state # "none"
       /\ mails'[m].state = "stored" =>
            /\ mails[m].state = "stored" /\ mails'[m].at = mails[m].at
            /\ x \in Past("mail") =>
                 /\ mails'[m].events >= mails[m].events
                 /\ mails'[m].events - mails'[m].late <= mails[m].events - mails[m].late
  /\ \A t \in Tasks : tasks'[t].state = "done" =>
       tasks'[t] = tasks[t] \/ tasks'[t].at = now
  /\ \A d \in Docs : docs'[d].state = "stored" =>
       docs'[d] = docs[d] \/ docs'[d].at = now

LEMMA NewIsNotExpired ==
  ASSUME now \in 0..MaxTime, NEW asOf \in 0..MaxTime, asOf <= now, NEW k \in RowKinds
  PROVE  ~Expired(now, k, asOf)
<1>1. now \in Int /\ asOf \in Int /\ Keep[k] \in Nat
  BY RetentionAssumption, Constant DEF RetentionAssumption
<1>2. ~(now < asOf - Keep[k])
  BY <1>1
<1>3. QED BY <1>2 DEF Expired

LEMMA KeptStays ==
  ASSUME RetentionTypeOK, RetentionTypeOK', now \in 0..MaxTime,
         NEW w \in Works, NEW x, NEW b \in BOOLEAN, NEW c \in BOOLEAN, c => b,
         w.asOf <= now, KeptBy(w, x, b), Leaves(w, x, c)
  PROVE  KeptBy(w, x, c)'
<1>1. \A k \in RowKinds : ~Expired(now, k, w.asOf)
  BY NewIsNotExpired DEF Works
<1>2. "attempt" \in RowKinds /\ "task" \in RowKinds /\ "document" \in RowKinds
  BY DEF RowKinds
<1>3. c => \A o \in Opps, at \in 0..MaxTime : <<"opportunity", o, at>> \in w.rows =>
             opps'[o].status # "none" /\ opps'[o].at = at
  BY DEF KeptBy, Leaves, Stored
<1>4. ASSUME x \in Past("attempt"),
             NEW o \in Opps, NEW a \in attempts'[o], Expired(a.at, "attempt", w.asOf)
      PROVE  <<"attempt", o, a.at>> \in w.rows
  BY <1>1, <1>2, <1>4 DEF KeptBy, Leaves
<1>5. ASSUME NEW m \in w.mails
      PROVE  /\ mails'[m].state # "none"
             /\ mails'[m].state = "stored" =>
                  /\ Expired(mails'[m].at, "mail", w.asOf)
                  /\ x \in Past("mail") =>
                       \E n \in (mails'[m].events - mails'[m].late)..mails'[m].events :
                         <<"mail", m, n>> \in w.rows
  <2>1. mails[m].state # "none" /\ mails'[m].state # "none"
    BY DEF KeptBy, Leaves
  <2>2. ASSUME mails'[m].state = "stored" PROVE Expired(mails'[m].at, "mail", w.asOf)
    <3>1. mails[m].state = "stored" /\ mails'[m].at = mails[m].at
      BY <2>1, <2>2 DEF Leaves
    <3>2. Expired(mails[m].at, "mail", w.asOf)
      BY <3>1 DEF KeptBy
    <3>3. QED BY <3>1, <3>2
  <2>3. ASSUME mails'[m].state = "stored", x \in Past("mail")
        PROVE  \E n \in (mails'[m].events - mails'[m].late)..mails'[m].events :
                 <<"mail", m, n>> \in w.rows
    <3>1. /\ mails[m].state = "stored"
          /\ mails'[m].events >= mails[m].events
          /\ mails'[m].events - mails'[m].late <= mails[m].events - mails[m].late
      BY <2>1, <2>3 DEF Leaves
    <3>2. PICK n \in (mails[m].events - mails[m].late)..mails[m].events :
            <<"mail", m, n>> \in w.rows
      BY <2>3, <3>1 DEF KeptBy
    <3>3. m \in Mails
      BY DEF Works
    <3>4. /\ mails[m].events \in Nat /\ mails[m].late \in Nat
          /\ mails'[m].events \in Nat /\ mails'[m].late \in Nat
      BY <3>3 DEF RetentionTypeOK, MailRows
    <3>5. n \in (mails'[m].events - mails'[m].late)..mails'[m].events
      BY <3>1, <3>4
    <3>6. QED BY <3>2, <3>5
  <2>4. QED BY <2>1, <2>2, <2>3
<1>6. ASSUME x \in Past("task"), NEW t \in Tasks, tasks'[t].state = "done",
             Expired(tasks'[t].at, "task", w.asOf)
      PROVE  <<"task", t, tasks'[t].at>> \in w.rows
  <2>1. tasks'[t] = tasks[t]
    BY <1>1, <1>2, <1>6 DEF Leaves
  <2>2. t \in ExpiredTasks(w.asOf)
    BY <1>6, <2>1 DEF ExpiredTasks
  <2>3. QED BY <1>6, <2>1, <2>2 DEF KeptBy
<1>7. ASSUME x \in Past("document"), NEW d \in Docs, docs'[d].state = "stored",
             Expired(docs'[d].at, "document", w.asOf)
      PROVE  <<"document", d, docs'[d].path>> \in w.rows
  <2>1. docs'[d] = docs[d]
    BY <1>1, <1>2, <1>7 DEF Leaves
  <2>2. d \in ExpiredDocs(w.asOf)
    BY <1>7, <2>1 DEF ExpiredDocs
  <2>3. QED BY <1>7, <2>1, <2>2 DEF KeptBy
<1>8. QED
  BY <1>3, <1>4, <1>5, <1>6, <1>7
  DEF KeptBy, Stored, ExpiredTasks, ExpiredDocs, Expired

-----------------------------------------------------------------------------
(* The steps that are not the run's own. *)

OwnStep(q) == Enforce(q) \/ Select(q) \/ Write(q)

LEMMA RunsStay ==
  ASSUME Core, RetentionTypeOK, Busy, [RetentionNext]_allVars, NEW q \in Callers,
         ~OwnStep(q), op'[q].step \in RetentionSteps
  PROVE  /\ op'[q].step = op[q].step /\ work'[q] = work[q]
         /\ op'[q].alone => op[q].alone
<1>1. CASE op' = op /\ work' = work
  BY <1>1
<1>2. CASE Operate /\ UNCHANGED retentionVars
  BY <1>2, OperateRuns DEF retentionVars
<1>3. ASSUME \/ \E m \in Mails : SendMail(m) \/ RecordEvent(m)
             \/ \E t \in Tasks : UpdateTask(t)
      PROVE  op' = op /\ work' = work
  BY <1>3 DEF SendMail, RecordEvent, UpdateTask, Starts
<1>4. ASSUME NEW p \in Callers, Draw(p) \/ Store(p) \/ Unlink(p)
      PROVE  op' = op /\ work'[q] = work[q]
  <2>1. op' = op /\ \A r \in Callers : r # p => work'[r] = work[r]
    BY <1>4, WorkTyped DEF Draw, Store, Unlink, Starts, vars
  <2>2. op[p].step = "idle"
    BY <1>4 DEF Draw, Free, Store, Unlink, ToUnlink, At, Busy
  <2>3. q # p
    BY <2>1, <2>2 DEF RetentionSteps
  <2>4. QED BY <2>1, <2>3
<1>5. ASSUME NEW p \in Callers, Delete(p) \/ DeleteFails(p) \/ Killed(p)
      PROVE  op'[q] = op[q] /\ work'[q] = work[q]
  <2>1. Finish(p) /\ op \in [Callers -> Ops]
    BY <1>5 DEF Delete, DeleteFails, Killed, Core, TypeOK, Ops
  <2>2. q # p
    BY <2>1, NoOpTyped DEF Finish, RetentionSteps
  <2>3. QED BY <1>5, <2>1, <2>2, WorkTyped DEF Finish
<1>6. ASSUME NEW p \in Callers, OwnStep(p)
      PROVE  /\ op'[q].step = op[q].step /\ work'[q] = work[q]
             /\ op'[q].alone => op[q].alone
  <2>1. q # p
    BY <1>6
  <2>2. work'[q] = work[q]
    BY <1>6, <2>1, WorkTyped DEF OwnStep
  <2>3. CASE Enforce(p)
    BY <2>1, <2>2, <2>3, EnforceEnters, EnterElse
  <2>4. CASE Select(p) \/ Write(p)
    <3>1. op'[q] = op[q]
      BY <2>1, <2>4, SelectRunsOn DEF RunsOn, Goto, Core, TypeOK
    <3>2. QED BY <2>2, <3>1
  <2>5. QED BY <1>6, <2>3, <2>4 DEF OwnStep
<1>7. QED
  BY <1>1, <1>2, <1>3, <1>4, <1>5, <1>6
  DEF RetentionNext, OwnStep, allVars, vars, retentionVars

LEMMA NextBusy ==
  ASSUME Core, RetentionTypeOK, Busy, [RetentionNext]_allVars
  PROVE  Busy'
<1> SUFFICES ASSUME NEW q \in Callers, op'[q].step # "idle"
             PROVE  work'[q].drawing = {}
  BY DEF Busy
<1>1. CASE UNCHANGED <<op, work>>
  BY <1>1 DEF Busy
<1>2. ASSUME NEW p \in Callers, NEW new, Enter(p, new), Free(p),
             work'[p].drawing = work[p].drawing,
             \A r \in Callers : r # p => work'[r] = work[r]
      PROVE  work'[q].drawing = {}
  <2>1. CASE q = p
    BY <1>2, <2>1 DEF Free, NoWork
  <2>2. CASE q # p
    BY <1>2, <2>2, EnterElse DEF Busy
  <2>3. QED BY <2>1, <2>2
<1>3. ASSUME NEW p \in Callers, Step(p), work' = work PROVE work'[q].drawing = {}
  <2>1. PICK n : op' = [op EXCEPT ![p] = n]
    BY <1>3, StepMoves DEF Moves
  <2>2. op[p].step # "idle"
    BY <1>3, StepOwnRows
  <2>3. QED BY <1>3, <2>1, <2>2 DEF Busy, Core, TypeOK
<1>4. CASE Operate /\ UNCHANGED retentionVars
  <2>1. work' = work
    BY <1>4 DEF retentionVars
  <2>2. ASSUME NEW p \in Callers, Free(p), Begin(p) PROVE work'[q].drawing = {}
    BY <1>2, <2>1, <2>2, BeginEnters
  <2>3. QED BY <1>1, <1>3, <1>4, <2>1, <2>2 DEF Operate, Discover, Tick
<1>5. ASSUME NEW p \in Callers, Enforce(p) PROVE work'[q].drawing = {}
  <2>1. work' = [work EXCEPT ![p] = [work[p] EXCEPT !.asOf = now]] /\ Free(p)
        /\ work \in [Callers -> Works]
    BY <1>5 DEF Enforce, RetentionTypeOK
  <2>2. /\ work'[p].drawing = work[p].drawing
        /\ \A r \in Callers : r # p => work'[r] = work[r]
    BY <2>1 DEF Works
  <2>3. QED BY <1>2, <1>5, <2>1, <2>2, EnforceEnters
<1>6. ASSUME NEW p \in Callers, Select(p) \/ Write(p) PROVE work'[q].drawing = {}
  <2>1. op[p].step # "idle" /\ \A r \in Callers : r # p => op'[r] = op[r]
    BY <1>6, SelectRunsOn DEF RunsOn, Goto, Core, TypeOK, RetentionSteps
  <2>2. work'[p].drawing = work[p].drawing
        /\ \A r \in Callers : r # p => work'[r] = work[r]
    BY <1>6, SelectReads DEF Write
  <2>3. QED BY <2>1, <2>2 DEF Busy
<1>7. ASSUME NEW p \in Callers, Draw(p) \/ Store(p) \/ Unlink(p)
      PROVE  work'[q].drawing = {}
  <2>1. op' = op /\ \A r \in Callers : r # p => work'[r] = work[r]
    BY <1>7, WorkTyped DEF Draw, Store, Unlink, Starts, vars
  <2>2. Store(p) => work'[p].drawing = {}
    BY DEF Store, RetentionTypeOK, NoWork
  <2>3. Draw(p) \/ Unlink(p) => op[p].step = "idle"
    BY DEF Draw, Free, Unlink, ToUnlink, At
  <2>4. QED BY <1>7, <2>1, <2>2, <2>3 DEF Busy
<1>8. ASSUME NEW p \in Callers, Delete(p) \/ DeleteFails(p) \/ Killed(p)
      PROVE  work'[q].drawing = {}
  <2>1. Finish(p) /\ op \in [Callers -> Ops]
    BY <1>8 DEF Delete, DeleteFails, Killed, Core, TypeOK, Ops
  <2>2. q # p
    BY <2>1, NoOpTyped DEF Finish
  <2>3. QED BY <1>8, <2>1, <2>2, WorkTyped DEF Finish, Busy
<1>9. ASSUME \/ \E m \in Mails : SendMail(m) \/ RecordEvent(m)
             \/ \E t \in Tasks : UpdateTask(t)
      PROVE  UNCHANGED <<op, work>>
  BY <1>9 DEF SendMail, RecordEvent, UpdateTask, Starts
<1>10. QED
  BY <1>1, <1>4, <1>5, <1>6, <1>7, <1>8, <1>9
  DEF RetentionNext, allVars, vars, retentionVars

\* Rows that stay as they are.
LEMMA SameLeaves ==
  ASSUME RetentionTypeOK, NEW w \in Works, NEW x, NEW c,
         UNCHANGED <<mails, tasks, docs>>,
         \A o \in Opps : Stored(o) =>
           opps'[o].status # "none" /\ opps'[o].at = opps[o].at,
         \A o \in Opps : \A a \in attempts'[o] : a \in attempts[o] \/ a.at = now
  PROVE  Leaves(w, x, c)
<1>1. \A m \in w.mails : mails[m].events \in Nat /\ mails[m].late \in Nat
  BY DEF Works, RetentionTypeOK, MailRows
<1>2. QED BY <1>1 DEF Leaves

\* A step of an operation keeps the rows it stores, and adds to the attempts.
LEMMA StepAges ==
  ASSUME Core, NEW p \in Callers, Step(p)
  PROVE  /\ \A o \in Opps : Stored(o) =>
              opps'[o].status # "none" /\ opps'[o].at = opps[o].at
         /\ \A o \in Opps : /\ attempts[o] \subseteq attempts'[o]
                            /\ \A a \in attempts'[o] : a \in attempts[o] \/ a.at = now
<1>1. /\ opps \in [Opps -> OppRows] /\ attempts \in [Opps -> SUBSET Attempts]
      /\ op[p].status # "none" /\ op[p].opp \in Opps
  BY Constant DEF Core, TypeOK, OppRows, Attempts
<1>2. ASSUME NEW o \in Opps, Stored(o)
      PROVE  opps'[o].status # "none" /\ opps'[o].at = opps[o].at
  <2>1. CASE opps' = opps
    BY <1>2, <2>1 DEF Stored
  <2>2. CASE opps' = [opps EXCEPT ![op[p].opp].status = op[p].status]
    BY <1>1, <1>2, <2>2 DEF Stored, OppRows
  <2>3. QED
    BY <2>1, <2>2
    DEF Step, LookToSubmit, LookAgain, Record, Accept, Raise, LogSuccess,
        LogFailure, LookToPoll, Ask, Apply
<1>3. \/ attempts' = attempts
      \/ \E x : x.at = now /\ attempts' = [attempts EXCEPT ![op[p].opp] = @ \cup {x}]
  <2>1. ASSUME NEW b, attempts' = Logged(p, b)
        PROVE  \E x : x.at = now
                      /\ attempts' = [attempts EXCEPT ![op[p].opp] = @ \cup {x}]
    <3>1. [succeeded |-> b, number |-> op[p].attempt, at |-> now].at = now
      OBVIOUS
    <3>2. QED BY <2>1, <3>1 DEF Logged
  <2>2. QED
    BY <2>1
    DEF Step, LookToSubmit, LookAgain, Record, Accept, Raise, LogSuccess,
        LogFailure, LookToPoll, Ask, Apply
<1>4. \A o \in Opps : /\ attempts[o] \subseteq attempts'[o]
                      /\ \A a \in attempts'[o] : a \in attempts[o] \/ a.at = now
  BY <1>1, <1>3
<1>5. QED BY <1>2, <1>4

LEMMA OperateLeaves ==
  ASSUME Core, RetentionTypeOK, Operate, UNCHANGED retentionVars,
         NEW w \in Works, NEW x, NEW c
  PROVE  Leaves(w, x, c)
<1>1. UNCHANGED <<mails, tasks, docs>>
  BY DEF retentionVars
<1>2. CASE UNCHANGED <<opps, attempts>>
  BY <1>1, <1>2, SameLeaves DEF Stored
<1>3. ASSUME NEW p \in Callers, Step(p) PROVE Leaves(w, x, c)
  BY <1>1, <1>3, StepAges, SameLeaves
<1>4. ASSUME NEW y \in Opps, Discover(y) PROVE Leaves(w, x, c)
  <2>1. (\A o \in Opps : Stored(o) => opps'[o] = opps[o]) /\ attempts' = attempts
    BY <1>4 DEF Discover, Core, TypeOK
  <2>2. QED BY <1>1, <2>1, SameLeaves DEF Stored
<1>5. QED BY <1>2, <1>3, <1>4 DEF Operate, Begin, Enter, Tick

LEMMA RowsLeave ==
  ASSUME Core, RetentionTypeOK, NEW q \in Callers, NEW w \in Works, w = work[q],
         op[q].step \in RetentionSteps, NEW c,
         \/ \E m \in Mails : SendMail(m) \/ RecordEvent(m)
         \/ \E t \in Tasks : UpdateTask(t)
  PROVE  Leaves(w, op[q].step, c)
<1>1. UNCHANGED <<opps, attempts, docs>>
  BY DEF SendMail, RecordEvent, UpdateTask, Starts
<1>2. w.mails \subseteq Mails
      /\ \A y \in Mails : mails[y].events \in Nat /\ mails[y].late \in Nat
  BY DEF RetentionTypeOK, Works, MailRows
<1>3. ASSUME NEW t \in Tasks PROVE tasks'[t] = tasks[t] \/ tasks'[t].at = now
  <2>1. \/ tasks' = tasks
        \/ \E u \in Tasks : tasks' = [tasks EXCEPT ![u] = [state |-> "done", at |-> now]]
    BY DEF SendMail, RecordEvent, UpdateTask
  <2>2. QED BY <2>1 DEF RetentionTypeOK
<1>4. ASSUME NEW y \in w.mails, mails[y].state # "none"
      PROVE  /\ mails'[y].state = mails[y].state /\ mails'[y].at = mails[y].at
             /\ op[q].step \in Past("mail") =>
                  /\ mails'[y].events >= mails[y].events
                  /\ mails'[y].events - mails'[y].late <= mails[y].events - mails[y].late
  <2>1. CASE mails'[y] = mails[y]
    BY <1>2, <2>1
  <2>2. CASE RecordEvent(y)
    <3> DEFINE late == IF Selected(y) THEN mails[y].late + 1 ELSE 0
               half == [mails[y] EXCEPT !.events = mails[y].events + 1]
               new == [half EXCEPT !.late = late]
    <3>1. y \in Mails /\ (op[q].step \in Past("mail") => Selected(y))
      BY <1>2 DEF Selected, Past
    <3>2. mails \in [Mails -> MailRows] /\ mails[y] \in MailRows
      BY <3>1 DEF RetentionTypeOK
    <3>3. mails'[y] = new
      BY <2>2, <3>1, <3>2 DEF RecordEvent, MailRows
    <3>4. op[q].step \in Past("mail") => late = mails[y].late + 1
      BY <3>1
    <3> HIDE DEF late
    <3>5. /\ half \in MailRows /\ half.events = mails[y].events + 1
          /\ half.state = mails[y].state /\ half.at = mails[y].at
      BY <3>2 DEF MailRows
    <3> HIDE DEF half
    <3>6. /\ new.events = mails[y].events + 1 /\ new.late = late
          /\ new.state = mails[y].state /\ new.at = mails[y].at
      BY <3>5 DEF MailRows
    <3> HIDE DEF new
    <3>7. mails[y].events \in Nat /\ mails[y].late \in Nat
      BY <1>2, <3>1
    <3>8. QED BY <3>3, <3>4, <3>6, <3>7
  <2>3. mails'[y] = mails[y] \/ RecordEvent(y)
    BY <1>2, <1>4 DEF SendMail, RecordEvent, UpdateTask, RetentionTypeOK
  <2>4. QED BY <2>1, <2>2, <2>3
<1>5. QED BY <1>1, <1>3, <1>4 DEF Leaves, Stored

\* A deletion is no operation's that is alone with another run.
LEMMA DeleteLeaves ==
  ASSUME Core, RetentionTypeOK, NEW p \in Callers, Delete(p), NEW w \in Works, NEW x
  PROVE  Leaves(w, x, FALSE)
<1>1. ASSUME NEW o \in Opps, NEW a \in attempts'[o] PROVE a \in attempts[o]
  BY <1>1 DEF Delete
<1>2. ASSUME NEW m \in w.mails, mails[m].state # "none"
      PROVE  \/ mails'[m] = mails[m] /\ mails[m].events \in Nat /\ mails[m].late \in Nat
             \/ mails'[m].state = "deleted"
  <2>1. m \in Mails /\ mails[m] \in MailRows
    BY DEF Works, RetentionTypeOK
  <2>2. QED BY <2>1 DEF Delete, MailRows
<1>3. ASSUME NEW t \in Tasks, tasks'[t].state = "done" PROVE tasks'[t] = tasks[t]
  <2>1. tasks[t] \in TaskRows
    BY DEF RetentionTypeOK
  <2>2. QED BY <1>3, <2>1 DEF Delete, TaskRows
<1>4. ASSUME NEW d \in Docs, docs'[d].state = "stored" PROVE docs'[d] = docs[d]
  <2>1. docs[d] \in DocRows
    BY DEF RetentionTypeOK
  <2>2. QED BY <1>4, <2>1 DEF Delete, DocRows
<1>5. ASSUME NEW m \in w.mails, mails[m].state # "none"
      PROVE  /\ mails'[m].state # "none"
             /\ mails'[m].state = "stored" =>
                  /\ mails[m].state = "stored" /\ mails'[m].at = mails[m].at
                  /\ mails'[m].events >= mails[m].events
                  /\ mails'[m].events - mails'[m].late <= mails[m].events - mails[m].late
  BY <1>2, <1>5
<1>6. QED BY <1>1, <1>3, <1>4, <1>5 DEF Leaves

LEMMA StoreLeaves ==
  ASSUME RetentionTypeOK, NEW p \in Callers, Store(p), NEW w \in Works, NEW x, NEW c
  PROVE  Leaves(w, x, c)
<1>1. UNCHANGED <<opps, attempts, mails, tasks>>
  BY DEF Store, vars
<1>2. ASSUME NEW d \in Docs PROVE docs'[d] = docs[d] \/ docs'[d].at = now
  BY DEF Store, RetentionTypeOK
<1>3. \A m \in w.mails :
        /\ mails[m].events >= mails[m].events
        /\ mails[m].events - mails[m].late <= mails[m].events - mails[m].late
  BY DEF Works, RetentionTypeOK, MailRows
<1>4. QED BY <1>1, <1>2, <1>3 DEF Leaves, Stored

\* No step takes from a run what it relies on, unless it knows.
LEMMA NextLeaves ==
  ASSUME Core, RetentionTypeOK, [RetentionNext]_allVars, NEW q \in Callers,
         op[q].step \in RetentionSteps, op'[q].step \in RetentionSteps,
         op'[q].alone => op[q].alone,
         NEW w \in Works, w = work[q], NEW c \in BOOLEAN, c = op'[q].alone
  PROVE  Leaves(w, op[q].step, c)
<1>1. CASE UNCHANGED <<opps, attempts, mails, tasks, docs>>
  BY <1>1, SameLeaves DEF Stored
<1>2. CASE Operate /\ UNCHANGED retentionVars
  BY <1>2, OperateLeaves
<1>3. CASE \/ \E m \in Mails : SendMail(m) \/ RecordEvent(m)
           \/ \E t \in Tasks : UpdateTask(t)
  BY <1>3, RowsLeave
<1>4. ASSUME NEW p \in Callers, Store(p) PROVE Leaves(w, op[q].step, c)
  BY <1>4, StoreLeaves
<1>5. ASSUME NEW p \in Callers, Delete(p) PROVE Leaves(w, op[q].step, c)
  <2>1. op[p].kind = "retain" /\ op[p].step # "idle" /\ op'[p].step = "idle"
    BY <1>5, NoOpTyped DEF Delete, At, Core, TypeOK, OpOK, Finish, RetentionSteps
  <2>2. q # p /\ op[q].step # "idle"
    BY <2>1 DEF RetentionSteps
  <2>3. ~op[q].alone
    BY <2>1, <2>2 DEF Core, Apart, Overlap
  <2>4. c = FALSE
    BY <2>3
  <2>5. QED BY <1>5, <2>4, DeleteLeaves
<1>6. ASSUME NEW p \in Callers, Draw(p) \/ DeleteFails(p) \/ Unlink(p) \/ Killed(p)
      PROVE  UNCHANGED <<opps, attempts, mails, tasks, docs>>
  BY <1>6 DEF Draw, DeleteFails, Unlink, Killed, Starts, vars
<1>7. ASSUME NEW p \in Callers, Enforce(p) \/ Select(p) \/ Write(p)
      PROVE  UNCHANGED <<opps, attempts, mails, tasks, docs>>
  BY <1>7, RunLeavesRows
<1>8. QED
  BY <1>1, <1>2, <1>3, <1>4, <1>5, <1>6, <1>7
  DEF RetentionNext, allVars, vars, retentionVars

-----------------------------------------------------------------------------
(* The run's own steps. *)

LEMMA NowGrows ==
  ASSUME Core, Core', [RetentionNext]_allVars
  PROVE  now <= now'
<1>1. now \in Int /\ now' \in Int
  BY Constant DEF Core, TypeOK
<1>2. now' = now \/ now' = now + 1
  <2>1. ASSUME NEW p \in Callers, Step(p) PROVE now' = now
    BY <2>1 DEF Step, LookToSubmit, LookAgain, Record, Accept, Raise, LogSuccess,
                LogFailure, LookToPoll, Ask, Apply, Rest
  <2>2. CASE Operate
    BY <2>1, <2>2 DEF Operate, Begin, Enter, Discover, Tick
  <2>3. ASSUME NEW p \in Callers, Enforce(p) \/ Select(p) \/ Write(p) PROVE now' = now
    BY <2>3, RunLeavesRows
  <2>4. QED
    BY <2>2, <2>3
    DEF RetentionNext, SendMail, RecordEvent, UpdateTask, Draw, Store, Delete,
        DeleteFails, Unlink, Killed, Starts, Rest, allVars, vars
<1>3. QED BY <1>1, <1>2

LEMMA StayKept ==
  ASSUME Core, Core', RetentionTypeOK, RetentionTypeOK', Busy, Kept,
         [RetentionNext]_allVars, NEW q \in Callers, ~OwnStep(q),
         op'[q].step \in RetentionSteps
  PROVE  KeptAt(q)'
<1>1. /\ op'[q].step = op[q].step /\ work'[q] = work[q]
      /\ op'[q].alone => op[q].alone
  BY RunsStay
<1>2. PICK w, b, c : w = work[q] /\ b = op[q].alone /\ c = op'[q].alone
  OBVIOUS
<1>3. /\ w \in Works /\ b \in BOOLEAN /\ c \in BOOLEAN /\ (c => b)
      /\ now \in 0..MaxTime
  BY <1>1, <1>2 DEF RetentionTypeOK, Core, TypeOK
<1>4. PICK x : x = op[q].step
  OBVIOUS
<1>5. w.asOf <= now /\ KeptBy(w, x, b)
  BY <1>1, <1>2, <1>4 DEF Kept, KeptAt
<1>6. Leaves(w, x, c)
  BY <1>1, <1>2, <1>3, <1>4, NextLeaves
<1>7. KeptBy(w, x, c)'
  BY <1>3, <1>5, <1>6, KeptStays
<1>8. w.asOf <= now'
  <2>1. w.asOf \in Int /\ now \in Int /\ now' \in Int
    BY <1>3, Constant DEF Works, Core, TypeOK
  <2>2. QED BY <1>5, <2>1, NowGrows
<1>9. QED
  BY <1>1, <1>2, <1>4, <1>7, <1>8
  DEF KeptAt, KeptBy, ExpiredTasks, ExpiredDocs, Expired

LEMMA EnforceKept ==
  ASSUME Core, RetentionTypeOK, NEW p \in Callers, Enforce(p)
  PROVE  KeptAt(p)'
<1>1. /\ work' = [work EXCEPT ![p] = [NoWork EXCEPT !.asOf = now]]
      /\ work \in [Callers -> Works] /\ now' = now /\ now \in Int
  BY Constant DEF Enforce, Enter, Free, RetentionTypeOK, Core, TypeOK
<1>2. op'[p].step = "mail"
  BY EnforceEnters, EnterSelf
<1>3. work'[p].asOf = now /\ work'[p].rows = {} /\ work'[p].mails = {}
  BY <1>1 DEF NoWork
<1>4. now <= now
  BY <1>1
<1>5. QED BY <1>1, <1>2, <1>3, <1>4 DEF KeptAt, KeptBy, Past

\* The rows that a step of the run reads.
LEMMA SelectKept ==
  ASSUME Core, RetentionTypeOK, Kept, NEW p \in Callers, Select(p)
  PROVE  KeptAt(p)'
<1>1. PICK w, v, x, b : w = work[p] /\ v = work'[p] /\ x = op[p].step /\ b = op[p].alone
  OBVIOUS
<1>2. /\ x \in {"mail", "document", "attempt", "task", "opportunity", "event"}
      /\ w \in Works /\ v.asOf = w.asOf
      /\ v.mails = IF x = "mail" THEN ExpiredMails(w.asOf) ELSE w.mails
      /\ v.rows = w.rows \cup ReadAt(x, w.asOf)
  BY <1>1, SelectReads DEF RetentionTypeOK
<1>3. /\ UNCHANGED <<opps, attempts, now, mails, tasks, docs>>
      /\ opps \in [Opps -> OppRows] /\ attempts \in [Opps -> SUBSET Attempts]
      /\ mails \in [Mails -> MailRows]
  BY RunLeavesRows DEF Core, TypeOK, OppRows, Attempts, RetentionTypeOK
<1>4. op'[p].step = After(x) /\ op'[p].alone = b
  <2>1. op' = [op EXCEPT ![p].step = After(x)] /\ op \in [Callers -> Ops]
    BY <1>1, SelectReads DEF Goto, Core, TypeOK, Ops
  <2>2. op'[p] = [op[p] EXCEPT !.step = After(x)] /\ op[p] \in Ops
    BY <2>1
  <2>3. QED BY <1>1, <2>2 DEF Ops
<1>5. w.asOf <= now /\ KeptBy(w, x, b)
  BY <1>1, <1>2 DEF Kept, KeptAt, RetentionSteps
<1>6. ASSUME b, NEW o \in Opps, NEW at \in 0..MaxTime, <<"opportunity", o, at>> \in v.rows
      PROVE  opps[o].status # "none" /\ opps[o].at = at
  <2>1. CASE <<"opportunity", o, at>> \in w.rows
    BY <1>5, <1>6, <2>1 DEF KeptBy, Stored
  <2>2. CASE <<"opportunity", o, at>> \in ReadAt(x, w.asOf)
    BY <2>2 DEF ReadAt, ExpiredOpps, Stored
  <2>3. QED BY <1>2, <1>6, <2>1, <2>2
<1>7. ASSUME After(x) \in Past("document"), NEW d \in ExpiredDocs(w.asOf)
      PROVE  <<"document", d, docs[d].path>> \in v.rows
  <2>1. x \in Past("document") \/ x = "document"
    BY <1>2, <1>7 DEF After, Past
  <2>2. QED BY <1>2, <1>5, <1>7, <2>1 DEF KeptBy, ReadAt
<1>8. ASSUME After(x) \in Past("attempt"), NEW o \in Opps, NEW a \in attempts[o],
             Expired(a.at, "attempt", w.asOf)
      PROVE  <<"attempt", o, a.at>> \in v.rows
  <2>1. x \in Past("attempt") \/ x = "attempt"
    BY <1>2, <1>8 DEF After, Past
  <2>2. CASE x \in Past("attempt")
    BY <1>2, <1>5, <1>8, <2>2 DEF KeptBy
  <2>3. CASE x = "attempt"
    <3> DEFINE y == <<o, a.at>>
    <3>1. a.at \in 0..MaxTime
      BY <1>3 DEF Attempts
    <3>2. y \in Opps \X (0..MaxTime) /\ y[1] = o /\ y[2] = a.at
      BY <3>1
    <3> HIDE DEF y
    <3>3. y \in ExpiredAttempts(w.asOf)
      BY <1>8, <3>2 DEF ExpiredAttempts
    <3>4. <<"attempt", y[1], y[2]>> \in ReadAt(x, w.asOf)
      BY <2>3, <3>3 DEF ReadAt
    <3>5. QED BY <1>2, <3>2, <3>4
  <2>4. QED BY <2>1, <2>2, <2>3
<1>9. ASSUME After(x) \in Past("task"), NEW t \in ExpiredTasks(w.asOf)
      PROVE  <<"task", t, tasks[t].at>> \in v.rows
  <2>1. x \in Past("task") \/ x = "task"
    BY <1>2, <1>9 DEF After, Past
  <2>2. QED BY <1>2, <1>5, <1>9, <2>1 DEF KeptBy, ReadAt
<1>10. ASSUME NEW m \in v.mails
       PROVE  /\ mails[m].state # "none"
              /\ mails[m].state = "stored" =>
                   /\ Expired(mails[m].at, "mail", w.asOf)
                   /\ After(x) \in Past("mail") =>
                        \E n \in (mails[m].events - mails[m].late)..mails[m].events :
                          <<"mail", m, n>> \in v.rows
  <2>1. CASE x = "mail"
    BY <1>2, <1>10, <2>1 DEF ExpiredMails, After, Past
  <2>2. CASE x # "mail"
    <3>1. m \in w.mails /\ m \in Mails
      BY <1>2, <1>10, <2>2 DEF Works
    <3>2. /\ mails[m].state # "none"
          /\ mails[m].state = "stored" => Expired(mails[m].at, "mail", w.asOf)
      BY <1>5, <3>1 DEF KeptBy
    <3>3. ASSUME mails[m].state = "stored", After(x) \in Past("mail")
          PROVE  \E n \in (mails[m].events - mails[m].late)..mails[m].events :
                   <<"mail", m, n>> \in v.rows
      <4>1. x = "event"
        BY <1>2, <3>3 DEF After, Past
      <4>2. m \in ExpiredMails(w.asOf)
        BY <3>1, <3>2, <3>3 DEF ExpiredMails
      <4>3. <<"mail", m, mails[m].events>> \in v.rows
        BY <1>2, <4>1, <4>2 DEF ReadAt
      <4>4. mails[m].events \in Nat /\ mails[m].late \in Nat
        BY <1>3, <3>1 DEF MailRows
      <4>5. mails[m].events \in (mails[m].events - mails[m].late)..mails[m].events
        BY <4>4
      <4>6. QED BY <4>3, <4>5
    <3>4. QED BY <3>2, <3>3
  <2>3. QED BY <2>1, <2>2
<1>11. /\ ExpiredDocs(w.asOf)' = ExpiredDocs(w.asOf)
       /\ ExpiredTasks(w.asOf)' = ExpiredTasks(w.asOf)
  BY <1>1, <1>2, <1>3 DEF ExpiredDocs, ExpiredTasks, Expired
<1>12. QED
  BY <1>1, <1>2, <1>3, <1>4, <1>5, <1>6, <1>7, <1>8, <1>9, <1>10, <1>11
  DEF KeptAt, KeptBy, Stored, ExpiredDocs, ExpiredTasks, Expired

LEMMA WriteKept ==
  ASSUME Core, RetentionTypeOK, Kept, NEW p \in Callers, Write(p)
  PROVE  KeptAt(p)'
<1>1. /\ UNCHANGED <<opps, attempts, now, mails, tasks, docs, work>>
      /\ op[p].step = "write" /\ op' = [op EXCEPT ![p].step = "delete"]
      /\ op \in [Callers -> Ops]
  BY DEF Write, Goto, At, Rest, Core, TypeOK, Ops
<1>2. op'[p] = [op[p] EXCEPT !.step = "delete"] /\ op[p] \in Ops
  BY <1>1
<1>3. op'[p].step = "delete" /\ op'[p].alone = op[p].alone
  BY <1>2 DEF Ops
<1>4. KeptAt(p)
  BY <1>1 DEF Kept, RetentionSteps
<1>5. \A k \in {"document", "attempt", "task", "mail"} :
        "write" \in Past(k) /\ "delete" \in Past(k)
  BY DEF Past
<1>6. QED
  BY <1>1, <1>3, <1>4, <1>5
  DEF KeptAt, KeptBy, Stored, ExpiredDocs, ExpiredTasks, Expired

LEMMA NextKept ==
  ASSUME Core, Core', RetentionTypeOK, RetentionTypeOK', Busy, Kept,
         [RetentionNext]_allVars
  PROVE  Kept'
BY StayKept, EnforceKept, SelectKept, WriteKept DEF Kept, OwnStep

LEMMA NextWritten ==
  ASSUME Core, RetentionTypeOK, Busy, Written, [RetentionNext]_allVars
  PROVE  Written'
<1> SUFFICES ASSUME NEW q \in Callers, op'[q].step = "delete", ~Replaced(q)'
             PROVE  work'[q].rows \subseteq archive'[FileOf(q)'].rows
  BY DEF Written, WrittenAt, At
<1>1. archive \in [0..MaxTime -> ArchiveFiles]
      /\ \A p \in Callers : FileOf(p) \in 0..MaxTime
  BY RetentionAssumption DEF RetentionTypeOK, FileOf, Works, RetentionAssumption
<1>2. CASE Write(q)
  BY <1>1, <1>2 DEF Write, FileOf
<1>3. CASE ~OwnStep(q)
  <2>1. op[q].step = "delete" /\ work'[q] = work[q]
    BY <1>3, RunsStay DEF RetentionSteps
  <2>2. FileOf(q)' = FileOf(q)
    BY <2>1 DEF FileOf
  <2>3. CASE archive' = archive
    BY <2>1, <2>2, <2>3 DEF Written, WrittenAt, Replaced, At
  <2>4. ASSUME NEW p \in Callers, Write(p)
        PROVE  archive'[FileOf(q)'] = archive[FileOf(q)]
    <3>1. archive' = [archive EXCEPT ![FileOf(p)] =
                        [rows |-> work[p].rows, by |-> {p}]]
      BY <2>4 DEF Write
    <3>2. q # p
      BY <1>3, <2>4 DEF OwnStep
    <3>3. FileOf(q) # FileOf(p)
      <4>1. archive'[FileOf(q)'].by = {q}
        BY DEF Replaced, At
      <4>2. ASSUME FileOf(q) = FileOf(p) PROVE FALSE
        BY <1>1, <2>2, <3>1, <3>2, <4>1, <4>2
      <4>3. QED BY <4>2
    <3>4. QED BY <1>1, <2>2, <3>1, <3>3
  <2>5. ASSUME NEW p \in Callers, Write(p)
        PROVE  work'[q].rows \subseteq archive'[FileOf(q)'].rows
    BY <2>1, <2>2, <2>4, <2>5 DEF Written, WrittenAt, Replaced, At
  <2>6. archive' = archive \/ \E p \in Callers : Write(p)
    <3>1. ASSUME NEW p \in Callers, Select(p) PROVE archive' = archive
      BY <3>1, SelectReads
    <3>2. QED
      BY <3>1
      DEF RetentionNext, SendMail, RecordEvent, UpdateTask, Draw, Store, Enforce,
          Delete, DeleteFails, Unlink, Killed, Starts, allVars, retentionVars
  <2>7. QED BY <2>3, <2>5, <2>6
<1>4. CASE Enforce(q) \/ Select(q)
  <2>1. op'[q].step # "delete"
    <3>1. CASE Enforce(q)
      BY <3>1, EnforceEnters, EnterSelf
    <3>2. CASE Select(q)
      BY <3>2, SelectReads DEF Goto, After, Core, TypeOK
    <3>3. QED BY <1>4, <3>1, <3>2
  <2>2. QED BY <2>1
<1>5. QED BY <1>2, <1>3, <1>4 DEF OwnStep

-----------------------------------------------------------------------------
(* The deletion. *)

\* Rows are deleted in a deletion only.
LEMMA OthersDeleteNothing ==
  ASSUME Core, RetentionTypeOK, Filed, [RetentionNext]_allVars,
         \A p \in Callers : ~Delete(p)
  PROVE  /\ \A o \in Opps : /\ attempts[o] \subseteq attempts'[o]
                            /\ Stored(o) => opps'[o].status # "none"
         /\ \A m \in Mails : mails[m].state = "stored" => mails'[m].state = "stored"
         /\ \A t \in Tasks : tasks[t].state = "done" => tasks'[t].state = "done"
         /\ \A d \in Docs : docs[d].state = "stored" => docs'[d].state = "stored"
<1>0. ASSUME NEW p \in Callers, Enforce(p) \/ Select(p) \/ Write(p)
      PROVE  UNCHANGED <<opps, attempts, mails, tasks, docs>>
  BY <1>0, RunLeavesRows
<1>1. \A o \in Opps : /\ attempts[o] \subseteq attempts'[o]
                      /\ Stored(o) => opps'[o].status # "none"
  <2>1. CASE UNCHANGED <<opps, attempts>>
    BY <2>1 DEF Stored
  <2>2. ASSUME NEW p \in Callers, Step(p)
        PROVE  \A o \in Opps : /\ attempts[o] \subseteq attempts'[o]
                               /\ Stored(o) => opps'[o].status # "none"
    BY <2>2, StepAges
  <2>3. ASSUME NEW x \in Opps, Discover(x)
        PROVE  \A o \in Opps : /\ attempts[o] \subseteq attempts'[o]
                               /\ Stored(o) => opps'[o].status # "none"
    BY <2>3 DEF Discover, Stored, Core, TypeOK
  <2>4. QED
    BY <1>0, <2>1, <2>2, <2>3
    DEF RetentionNext, Operate, Begin, Enter, Tick, SendMail, RecordEvent,
        UpdateTask, Draw, Store, DeleteFails, Unlink, Killed, Starts, vars, allVars
<1>2. \A m \in Mails : mails[m].state = "stored" => mails'[m].state = "stored"
  <2>1. CASE UNCHANGED mails
    BY <2>1
  <2>2. ASSUME NEW x \in Mails, SendMail(x)
        PROVE  \A m \in Mails : mails[m].state = "stored" => mails'[m].state = "stored"
    BY <2>2 DEF SendMail, RetentionTypeOK
  <2>3. ASSUME NEW x \in Mails, RecordEvent(x)
        PROVE  \A m \in Mails : mails'[m].state = mails[m].state
    <3>1. PICK n, l : mails' = [mails EXCEPT ![x].events = n, ![x].late = l]
      BY <2>3 DEF RecordEvent
    <3>2. QED BY <3>1 DEF RetentionTypeOK, MailRows
  <2>4. QED
    BY <1>0, <2>1, <2>2, <2>3
    DEF RetentionNext, UpdateTask, Draw, Store, DeleteFails, Unlink, Killed,
        retentionVars, allVars
<1>3. \A t \in Tasks : tasks[t].state = "done" => tasks'[t].state = "done"
  <2>1. CASE UNCHANGED tasks
    BY <2>1
  <2>2. ASSUME NEW x \in Tasks, UpdateTask(x)
        PROVE  \A t \in Tasks : tasks[t].state = "done" => tasks'[t].state = "done"
    BY <2>2 DEF UpdateTask, RetentionTypeOK
  <2>3. QED
    BY <1>0, <2>1, <2>2
    DEF RetentionNext, SendMail, RecordEvent, Draw, Store, DeleteFails, Unlink,
        Killed, retentionVars, allVars
<1>4. \A d \in Docs : docs[d].state = "stored" => docs'[d].state = "stored"
  <2>1. CASE UNCHANGED docs
    BY <2>1
  <2>2. ASSUME NEW p \in Callers, Store(p)
        PROVE  \A d \in Docs : docs[d].state = "stored" => docs'[d].state = "stored"
    BY <2>2 DEF Store, RetentionTypeOK, Works
  <2>3. QED
    BY <1>0, <2>1, <2>2
    DEF RetentionNext, SendMail, RecordEvent, UpdateTask, Draw, DeleteFails,
        Unlink, Killed, retentionVars, allVars
<1>5. QED BY <1>1, <1>2, <1>3, <1>4

\* Two runs that overlap are why a deleted opportunity may not be the one
\* archived, and two of one second why a file may not hold what is deleted.
LEMMA DeletesArchived ==
  ASSUME Core, RetentionTypeOK, Kept, Written, NEW p \in Callers, Delete(p),
         ~Replaced(p)
  PROVE  /\ \A o \in Opps :
              /\ \A a \in attempts[o] \ attempts'[o] :
                   <<"attempt", o, a.at>> \in Archived
              /\ Stored(o) /\ opps'[o] = NoOpp =>
                   \/ <<"opportunity", o, opps[o].at>> \in Archived
                   \/ \E q \in Callers : At(q, "delete") /\ ~op[q].alone
         /\ \A m \in Mails : mails[m].state = "stored" /\ mails'[m].state = "deleted" =>
              \E n \in (mails[m].events - mails[m].late)..mails[m].events :
                <<"mail", m, n>> \in Archived
         /\ \A t \in Tasks : tasks[t].state = "done" /\ tasks'[t].state = "deleted" =>
              <<"task", t, tasks[t].at>> \in Archived
         /\ \A d \in Docs : docs[d].state = "stored" /\ docs'[d].state = "deleted" =>
              <<"document", d, docs[d].path>> \in Archived
<1> DEFINE w == work[p]
           alone == op[p].alone
<1>1. KeptBy(w, "delete", alone) /\ op[p].step = "delete"
  BY DEF Kept, KeptAt, Delete, At, RetentionSteps
<1>2. \A r \in w.rows : r \in Archived
  <2>1. w.rows \subseteq archive[FileOf(p)].rows
    BY DEF Written, WrittenAt, Delete
  <2>2. FileOf(p) \in 0..MaxTime
    BY RetentionAssumption DEF RetentionTypeOK, FileOf, Works, RetentionAssumption
  <2>3. QED BY <2>1, <2>2 DEF Archived
<1>3. /\ attempts' = [o \in Opps |->
           {a \in attempts[o] : ~Expired(a.at, "attempt", w.asOf)}]
      /\ opps' = [o \in Opps |-> IF o \in SelectedOpps(p) THEN NoOpp ELSE opps[o]]
      /\ mails' = [m \in Mails |-> IF m \in w.mails
                     THEN [mails[m] EXCEPT !.state = "deleted"] ELSE mails[m]]
      /\ tasks' = [t \in Tasks |-> IF t \in ExpiredTasks(w.asOf)
                     THEN [tasks[t] EXCEPT !.state = "deleted"] ELSE tasks[t]]
      /\ docs' = [d \in Docs |-> IF d \in ExpiredDocs(w.asOf)
                    THEN [docs[d] EXCEPT !.state = "deleted"] ELSE docs[d]]
  BY DEF Delete, DeletedBy
<1>4. \A o \in SelectedOpps(p) : \E at \in 0..MaxTime : <<"opportunity", o, at>> \in w.rows
  BY DEF SelectedOpps
<1>5. \A k \in {"document", "attempt", "task", "mail"} : "delete" \in Past(k)
  BY DEF Past
<1> HIDE DEF w
<1>6. ASSUME NEW o \in Opps
      PROVE  /\ \A a \in attempts[o] \ attempts'[o] :
                  <<"attempt", o, a.at>> \in Archived
             /\ Stored(o) /\ opps'[o] = NoOpp =>
                  \/ <<"opportunity", o, opps[o].at>> \in Archived
                  \/ \E q \in Callers : At(q, "delete") /\ ~op[q].alone
  <2>1. ASSUME NEW a \in attempts[o] \ attempts'[o]
        PROVE  <<"attempt", o, a.at>> \in Archived
    <3>1. Expired(a.at, "attempt", w.asOf)
      BY <1>3, <2>1
    <3>2. QED BY <1>1, <1>2, <1>5, <2>1, <3>1 DEF KeptBy
  <2>2. Stored(o) /\ opps'[o] = NoOpp => o \in SelectedOpps(p)
    BY <1>3 DEF Stored, NoOpp
  <2>3. o \in SelectedOpps(p) /\ alone => <<"opportunity", o, opps[o].at>> \in Archived
    BY <1>1, <1>2, <1>4 DEF KeptBy
  <2>4. QED BY <1>1, <2>1, <2>2, <2>3 DEF At
<1>7. ASSUME NEW m \in Mails, mails[m].state = "stored", mails'[m].state = "deleted"
      PROVE  \E n \in (mails[m].events - mails[m].late)..mails[m].events :
               <<"mail", m, n>> \in Archived
  <2>1. m \in w.mails
    BY <1>3, <1>7
  <2>2. QED BY <1>1, <1>2, <1>5, <1>7, <2>1 DEF KeptBy
<1>8. ASSUME NEW t \in Tasks, tasks[t].state = "done", tasks'[t].state = "deleted"
      PROVE  <<"task", t, tasks[t].at>> \in Archived
  <2>1. t \in ExpiredTasks(w.asOf)
    BY <1>3, <1>8
  <2>2. QED BY <1>1, <1>2, <1>5, <2>1 DEF KeptBy
<1>9. ASSUME NEW d \in Docs, docs[d].state = "stored", docs'[d].state = "deleted"
      PROVE  <<"document", d, docs[d].path>> \in Archived
  <2>1. d \in ExpiredDocs(w.asOf)
    BY <1>3, <1>9
  <2>2. QED BY <1>1, <1>2, <1>5, <2>1 DEF KeptBy
<1>10. QED BY <1>6, <1>7, <1>8, <1>9

\* The rows a run deletes are in an archive file as it selected them, whatever is
\* stored, aged, updated or submitted while it selects and writes, documents by
\* id and path; but for the late events, the opportunity found again and the
\* file replaced by another run of the same second.
THEOREM DeletedRowsAreArchived == RetentionSpec => DeletedIsArchived
<1> DEFINE Inv == /\ Core /\ RetentionTypeOK /\ Filed /\ Busy /\ Kept /\ Written
<1>1. RetentionInit => Inv
  <2>1. ASSUME RetentionInit PROVE Filed /\ Busy /\ Kept /\ Written
    <3>1. \A p \in Callers : op[p].step = "idle" /\ work[p] = NoWork
      BY <2>1, NoOpTyped DEF RetentionInit, Init
    <3>2. Filed
      BY <2>1, <3>1 DEF RetentionInit, Filed, NoWork, NoDoc, RetentionSteps
    <3>3. QED BY <3>1, <3>2 DEF Busy, Kept, Written, WrittenAt, At, NoWork, RetentionSteps
  <2>2. QED BY <2>1, InitCore, InitRetentionTyped
<1>2. Inv /\ [RetentionNext]_allVars => Inv'
  BY NextCore, NextRetentionTyped, NextFiled, NextBusy, NextKept, NextWritten
<1>3. Inv /\ [RetentionNext]_allVars =>
  [\/ \E p \in Callers : Replaced(p) /\ op'[p].step = "idle"
   \/ /\ \A o \in Opps :
           /\ \A a \in attempts[o] \ attempts'[o] :
                <<"attempt", o, a.at>> \in Archived
           /\ Stored(o) /\ opps'[o] = NoOpp =>
                \/ <<"opportunity", o, opps[o].at>> \in Archived
                \/ \E p \in Callers : At(p, "delete") /\ ~op[p].alone
      /\ \A m \in Mails : mails[m].state = "stored" /\ mails'[m].state = "deleted" =>
           \E n \in (mails[m].events - mails[m].late)..mails[m].events :
             <<"mail", m, n>> \in Archived
      /\ \A t \in Tasks : tasks[t].state = "done" /\ tasks'[t].state = "deleted" =>
           <<"task", t, tasks[t].at>> \in Archived
      /\ \A d \in Docs : docs[d].state = "stored" /\ docs'[d].state = "deleted" =>
           <<"document", d, docs[d].path>> \in Archived]_allVars
  <2> SUFFICES ASSUME Inv, [RetentionNext]_allVars,
                      ~\E p \in Callers : Replaced(p) /\ op'[p].step = "idle"
               PROVE  /\ \A o \in Opps :
                           /\ \A a \in attempts[o] \ attempts'[o] :
                                <<"attempt", o, a.at>> \in Archived
                           /\ Stored(o) /\ opps'[o] = NoOpp =>
                                \/ <<"opportunity", o, opps[o].at>> \in Archived
                                \/ \E p \in Callers : At(p, "delete") /\ ~op[p].alone
                      /\ \A m \in Mails :
                           mails[m].state = "stored" /\ mails'[m].state = "deleted" =>
                             \E n \in (mails[m].events - mails[m].late)..mails[m].events :
                               <<"mail", m, n>> \in Archived
                      /\ \A t \in Tasks :
                           tasks[t].state = "done" /\ tasks'[t].state = "deleted" =>
                             <<"task", t, tasks[t].at>> \in Archived
                      /\ \A d \in Docs :
                           docs[d].state = "stored" /\ docs'[d].state = "deleted" =>
                             <<"document", d, docs[d].path>> \in Archived
    OBVIOUS
  <2>1. ASSUME NEW p \in Callers, Delete(p) PROVE ~Replaced(p)
    <3>1. op'[p].step = "idle"
      BY <2>1, NoOpTyped DEF Delete, Finish, Core, TypeOK
    <3>2. QED BY <3>1
  <2>2. CASE \E p \in Callers : Delete(p)
    BY <2>1, <2>2, DeletesArchived
  <2>3. CASE \A p \in Callers : ~Delete(p)
    BY <2>3, OthersDeleteNothing DEF NoOpp
  <2>4. QED BY <2>2, <2>3
<1>4. QED
  BY <1>1, <1>2, <1>3, PTL DEF RetentionSpec, DeletedIsArchived

=============================================================================
