--------------------------- MODULE DonorOutreach ---------------------------
(***************************************************************************)
(* The donor registry and outreach: FundingBot.upsert_donor,               *)
(* record_consent, set_donor_opt_out, gdpr_delete and send_outreach, with  *)
(* the upsert that the panel and the queue make before they send.          *)
(*                                                                         *)
(* Callers are processes (web workers, queue workers, the CLI) with an     *)
(* SQLite connection each.  A write and its commit are a step, and so is a *)
(* SELECT whose result a later step uses; a SELECT that only copies a name *)
(* or a locale is left out.  So is a call with dry_run, which writes       *)
(* nothing; the panel's preview passes no sender but not dry_run, and is a *)
(* kind of its own.                                                        *)
(***************************************************************************)
EXTENDS Integers, Sequences

CONSTANTS Callers, Donors, Channels,
          Week,        \* the seven days of the throttle, in ticks
          MaxTime,     \* bound: ticks of the clock
          MaxOps,      \* bound: operations started
          MaxCrashes   \* bound: callers killed, or failed by SMTP

ASSUME OutreachAssumption ==
  /\ Donors # {} /\ Channels # {}
  /\ Week \in Nat \ {0} /\ MaxTime \in Nat

VARIABLES
  donors,    \* donors[d]: row of donors
  consent,   \* consent[d][c]: status of the latest row of consent_records
  sentAt,    \* sentAt[d]: sent_at of the donor's communications, in order
  erased,    \* donors whose anonymised row exists
  op,        \* op[p]: the operation p runs
  now, started, crashes,
  granted,   \* ghost: <<d, c>> with a "granted" row
  request    \* ghost: request[d][c]: what the last operation asked for

vars == <<donors, consent, sentAt, erased, op, now, started, crashes,
          granted, request>>

Never == -1
Absent == [known |-> FALSE, optedOut |-> FALSE, lastContact |-> Never]

Kinds == {"edit", "consent", "optOut", "restore", "send", "preview"}
Steps == {"select", "upsertFirst", "find", "create", "flag", "check",
          "upsert", "insert", "mail", "log", "seal", "erase"}

\* known: what the operation knows of the row; at: send_outreach's send_time.
\* Ghosts: alone, no other operation on the donor ran at the same time;
\* wasOut, the donor had opted out when the operation began.
NoOp == [step |-> "idle", kind |-> "edit", donor |-> CHOOSE d \in Donors : TRUE,
         channel |-> CHOOSE c \in Channels : TRUE, optOut |-> FALSE,
         known |-> FALSE, lastContact |-> Never, at |-> 0, alone |-> TRUE,
         wasOut |-> FALSE]

TypeOK ==
  /\ donors \in [Donors -> [known : BOOLEAN, optedOut : BOOLEAN,
                            lastContact : Never..MaxTime]]
  /\ consent \in [Donors -> [Channels -> {"none", "granted", "withdrawn"}]]
  /\ sentAt \in [Donors -> Seq([at : 0..MaxTime, alone : BOOLEAN])]
  /\ erased \subseteq Donors
  /\ op \in [Callers -> [step : Steps \cup {"idle"}, kind : Kinds \cup {"erase"},
                donor : Donors, channel : Channels, optOut : BOOLEAN,
                known : BOOLEAN, lastContact : Never..MaxTime,
                at : 0..MaxTime, alone : BOOLEAN, wasOut : BOOLEAN]]
  /\ now \in 0..MaxTime
  /\ granted \subseteq Donors \X Channels
  /\ request \in [Donors -> [Channels -> {"unclear", "in", "out"}]]

Init ==
  /\ donors = [d \in Donors |-> Absent]
  /\ consent = [d \in Donors |-> [c \in Channels |-> "none"]]
  /\ sentAt = [d \in Donors |-> <<>>]
  /\ erased = {}
  /\ op = [p \in Callers |-> NoOp]
  /\ now = 0 /\ started = 0 /\ crashes = 0
  /\ granted = {}
  /\ request = [d \in Donors |-> [c \in Channels |-> "unclear"]]

-----------------------------------------------------------------------------
At(p, step) == op[p].step = step
Goto(p, step) == op' = [op EXCEPT ![p].step = step]
Finish(p) == op' = [op EXCEPT ![p] = NoOp]
Row(p) == donors[op[p].donor]

\* Calls of one process on one donor that another process's calls overlap.
Entered(p, new) ==
  LET others == {q \in Callers : op[q].step # "idle" /\ op[q].donor = new.donor}
  IN  [q \in Callers |->
         IF q = p THEN [new EXCEPT !.alone = (others = {})]
         ELSE [op[q] EXCEPT !.alone = @ /\ q \notin others]]

\* What a request that has begun leaves certain of the donor's status.
Unsettled(new) ==
  [request EXCEPT ![new.donor] = [c \in Channels |->
     CASE new.kind \in {"send", "preview"} -> @[c]
       [] new.kind \in {"consent", "restore"} ->
            IF c = new.channel THEN "unclear" ELSE @[c]
       [] new.kind = "erase" -> "unclear"
       [] OTHER -> IF @[c] = "in" THEN "unclear" ELSE @[c]]]

\* What a request that returns leaves certain, if it was alone.
Settled(p, asked) ==
  [request EXCEPT ![op[p].donor][op[p].channel] =
     IF op[p].alone THEN asked ELSE "unclear"]

First(kind, upsertFirst) ==
  CASE kind = "edit" -> "upsert"
    [] kind = "consent" -> "upsert"
    [] kind \in {"optOut", "restore"} -> "select"
    [] kind = "erase" -> "erase"
    [] OTHER -> IF upsertFirst THEN "upsertFirst" ELSE "find"

Begin(p) ==
  \E d \in Donors, c \in Channels, kind \in Kinds \cup {"erase"},
     optOut, upsertFirst \in BOOLEAN :
    LET new == [NoOp EXCEPT !.step = First(kind, upsertFirst), !.kind = kind,
                  !.donor = d, !.channel = c,
                  !.optOut = (kind = "edit" /\ optOut) \/ kind = "optOut",
                  !.wasOut = (kind = "send" /\ donors[d].optedOut)]
    IN  /\ At(p, "idle") /\ started < MaxOps
        /\ started' = started + 1
        /\ op' = Entered(p, new)
        /\ request' = Unsettled(new)
        /\ UNCHANGED <<donors, consent, sentAt, erased, now, crashes, granted>>

-----------------------------------------------------------------------------
\* upsert_donor, alone or as the first half of record_consent.

Upserted(row, optedOut) == [row EXCEPT !.known = TRUE, !.optedOut = optedOut]

Rest == UNCHANGED <<sentAt, erased, now, started, crashes>>

Upsert(p) ==
  /\ At(p, "upsert")
  /\ donors' = [donors EXCEPT ![op[p].donor] = Upserted(@, op[p].optOut)]
  /\ IF op[p].kind = "edit" THEN Finish(p) ELSE Goto(p, "insert")
  /\ UNCHANGED <<consent, granted, request>> /\ Rest

\* _insert_consent_record with status "granted" or "withdrawn".  The donor is
\* a foreign key: without its row the INSERT fails, and the operation with it.
Insert(p) ==
  LET d == op[p].donor  c == op[p].channel
      status == IF op[p].kind = "optOut" THEN "withdrawn" ELSE "granted"
  IN  /\ At(p, "insert") /\ Row(p).known
      /\ consent' = [consent EXCEPT ![d][c] = status]
      /\ granted' = IF status = "granted" THEN granted \cup {<<d, c>>} ELSE granted
      /\ CASE op[p].kind = "consent" -> Finish(p) /\ request' = Settled(p, "in")
           [] op[p].kind \in {"optOut", "restore"} ->
                Goto(p, "seal") /\ UNCHANGED request
           [] op[p].kind = "send" -> Goto(p, "mail") /\ UNCHANGED request
           [] op[p].kind = "preview" -> Goto(p, "log") /\ UNCHANGED request
      /\ UNCHANGED donors /\ Rest

InsertFails(p) ==
  /\ At(p, "insert") /\ ~Row(p).known
  /\ Finish(p)
  /\ UNCHANGED <<donors, consent, granted, request>> /\ Rest

-----------------------------------------------------------------------------
\* set_donor_opt_out

Select(p) ==
  /\ At(p, "select")
  /\ op' = [op EXCEPT ![p].known = Row(p).known, ![p].step = "flag"]
  /\ UNCHANGED <<donors, consent, granted, request>> /\ Rest

\* UPDATE donors SET opted_out: no effect when the row is gone.
Flagged(row, optedOut) ==
  IF row.known THEN [row EXCEPT !.optedOut = optedOut] ELSE row

\* Mutant: an opt-out leaves no consent record.
FlagOnly(p) ==
  /\ At(p, "flag")
  /\ donors' = [donors EXCEPT ![op[p].donor] =
       IF op[p].known THEN Flagged(@, op[p].optOut) ELSE Upserted(@, op[p].optOut)]
  /\ Goto(p, IF op[p].optOut THEN "seal" ELSE "upsert")
  /\ UNCHANGED <<consent, granted, request>> /\ Rest

Flag(p) ==
  /\ At(p, "flag")
  /\ donors' = [donors EXCEPT ![op[p].donor] =
       IF op[p].known THEN Flagged(@, op[p].optOut) ELSE Upserted(@, op[p].optOut)]
  /\ Goto(p, IF op[p].optOut THEN "insert" ELSE "upsert")
  /\ UNCHANGED <<consent, granted, request>> /\ Rest

Seal(p) ==
  /\ At(p, "seal")
  /\ donors' = [donors EXCEPT ![op[p].donor] = Flagged(@, op[p].optOut)]
  /\ request' = Settled(p, IF op[p].optOut THEN "out" ELSE "in")
  /\ Finish(p)
  /\ UNCHANGED <<consent, granted>> /\ Rest

-----------------------------------------------------------------------------
\* gdpr_delete: the donor's row and communications are renamed to an address
\* that depends on the donor alone, and its consent records follow the foreign
\* key; a second erasure of the donor breaks the primary key.
Erase(p) ==
  LET d == op[p].donor IN
  /\ At(p, "erase")
  /\ IF Row(p).known /\ d \notin erased
       THEN /\ donors' = [donors EXCEPT ![d] = Absent]
            /\ consent' = [consent EXCEPT ![d] = [c \in Channels |-> "none"]]
            /\ sentAt' = [sentAt EXCEPT ![d] = <<>>]
            /\ erased' = erased \cup {d}
            /\ granted' = granted \ ({d} \X Channels)
       ELSE UNCHANGED <<donors, consent, sentAt, erased, granted>>
  /\ Finish(p)
  /\ UNCHANGED <<request, now, started, crashes>>

-----------------------------------------------------------------------------
\* send_outreach, and the upsert its callers make for a request with a locale

UpsertFirst(p) ==
  /\ At(p, "upsertFirst")
  /\ donors' = [donors EXCEPT ![op[p].donor] = Upserted(@, FALSE)]
  /\ Goto(p, "find")
  /\ UNCHANGED <<consent, granted, request>> /\ Rest

\* SELECT * FROM donors: raises OptOutError on a donor that has opted out.  A
\* row that is gone after Create counts as a donor nobody has contacted.
Find(p) ==
  /\ At(p, "find")
  /\ IF ~Row(p).known /\ ~op[p].known THEN Goto(p, "create")
     ELSE IF Row(p).optedOut THEN Finish(p)
     ELSE op' = [op EXCEPT ![p].lastContact = Row(p).lastContact,
                           ![p].step = "check"]
  /\ UNCHANGED <<donors, consent, granted, request>> /\ Rest

Create(p) ==
  /\ At(p, "create")
  /\ donors' = [donors EXCEPT ![op[p].donor] = Upserted(@, FALSE)]
  /\ op' = [op EXCEPT ![p].known = TRUE, ![p].step = "find"]
  /\ UNCHANGED <<consent, granted, request>> /\ Rest

Throttled(lastContact) == lastContact # Never /\ now - lastContact < Week

\* Mutant: no consent is captured.
AfterChecksOnly(p) == IF op[p].kind = "send" THEN "mail" ELSE "log"

\* The step after the checks: a donor with no consent record gets one.
AfterChecks(p) ==
  IF consent[op[p].donor][op[p].channel] = "none" THEN "upsert"
  ELSE IF op[p].kind = "send" THEN "mail" ELSE "log"

\* get_latest_consent_record, OptOutError and OutreachThrottledError
Check(p) ==
  /\ At(p, "check")
  /\ IF \/ consent[op[p].donor][op[p].channel] = "withdrawn"
        \/ Throttled(op[p].lastContact)
       THEN Finish(p)
       ELSE op' = [op EXCEPT ![p].at = now, ![p].step = AfterChecks(p)]
  /\ UNCHANGED <<donors, consent, granted, request>> /\ Rest

Mail(p) ==
  /\ At(p, "mail")
  /\ Goto(p, "log")
  /\ UNCHANGED <<donors, consent, granted, request>> /\ Rest

\* Mutant: the contact is not stored.
ContactedForgets(row, at) == row

\* INSERT INTO communications and UPDATE donors SET last_contact_at
Contacted(row, at) == IF row.known THEN [row EXCEPT !.lastContact = at] ELSE row

Log(p) ==
  LET d == op[p].donor IN
  /\ At(p, "log")
  /\ sentAt' = [sentAt EXCEPT ![d] =
                  Append(@, [at |-> op[p].at, alone |-> op[p].alone])]
  /\ donors' = [donors EXCEPT ![d] = Contacted(@, op[p].at)]
  /\ Finish(p)
  /\ UNCHANGED <<consent, erased, granted, request, now, started, crashes>>

-----------------------------------------------------------------------------
\* The caller is killed, or the mail server refuses the message.
Crash(p) ==
  /\ op[p].step # "idle" /\ crashes < MaxCrashes
  /\ crashes' = crashes + 1
  /\ Finish(p)
  /\ UNCHANGED <<donors, consent, sentAt, erased, now, started, granted, request>>

Tick ==
  /\ now < MaxTime
  /\ now' = now + 1
  /\ UNCHANGED <<donors, consent, sentAt, erased, op, started, crashes, granted,
                 request>>

Step(p) == \/ Upsert(p) \/ Insert(p) \/ InsertFails(p) \/ Select(p) \/ Flag(p) \/ Seal(p)
           \/ Erase(p) \/ UpsertFirst(p) \/ Find(p) \/ Create(p) \/ Check(p)
           \/ Mail(p) \/ Log(p)

Next == (\E p \in Callers : Begin(p) \/ Step(p) \/ Crash(p)) \/ Tick

Spec == Init /\ [][Next]_vars
-----------------------------------------------------------------------------
(* Properties *)

\* Whether p has passed the checks of send_outreach for donor d on channel c.
Cleared(p, d, c) ==
  /\ op[p].kind \in {"send", "preview"}
  /\ op[p].donor = d /\ op[p].channel = c
  /\ op[p].step \in {"upsert", "insert", "mail", "log"}

\* An opt-out or a consent that returned, and that no other operation on the
\* donor overlapped, stays in force until a request that changes it: after
\* set_donor_opt_out no outreach passes the checks on that channel, whatever
\* upsert_donor does to opted_out, and after record_consent none is refused.
RequestsStick ==
  \A d \in Donors, c \in Channels :
    /\ request[d][c] = "out" =>
         /\ consent[d][c] = "withdrawn"
         /\ \A p \in Callers : ~Cleared(p, d, c)
    /\ request[d][c] = "in" =>
         consent[d][c] = "granted" /\ donors[d].known /\ ~donors[d].optedOut

\* send_outreach never mails a donor without a granted consent record of that
\* channel on file, given before or captured by this very operation, whatever
\* other operations overlap it; an erasure may take the record away.
MailHasConsentOnFile ==
  \A p \in Callers :
    op[p].step \in {"mail", "log"} /\ (op[p].alone \/ op[p].donor \notin erased) =>
    <<op[p].donor, op[p].channel>> \in granted

\* Two communications of a donor are seven days apart, unless the operation
\* that logged one of them was overlapped by another on the same donor: edits,
\* opt-outs and consents in between keep last_contact_at.
ThrottleHolds ==
  \A d \in Donors : \A j \in DOMAIN sentAt[d] : \A i \in 1..(j - 1) :
    sentAt[d][i].alone /\ sentAt[d][j].alone =>
      sentAt[d][j].at - sentAt[d][i].at >= Week

\* README.md:1350, "donor opt-out state is enforced during outreach": a donor
\* who had opted out when the request began is not mailed.  The callers of
\* send_outreach break it: with a locale and no template text they upsert the
\* donor first, and upsert_donor's default clears opted_out.
OptOutEnforced ==
  \A p \in Callers : op[p].step = "mail" /\ op[p].alone => ~op[p].wasOut
=============================================================================
