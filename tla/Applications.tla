---------------------------- MODULE Applications ----------------------------
(***************************************************************************)
(* The life of an opportunity: discovered, submitted by hand or through    *)
(* the portal, updated and polled (FundingBot.submit_application,          *)
(* submit_application_via_browser, update_application_status,              *)
(* poll_application_status).  Module Retention adds what deletes it.       *)
(*                                                                         *)
(* Callers are processes with an SQLite connection each: a write and its   *)
(* commit are a step, a SELECT whose result is used later is a step, and   *)
(* so is a call of the portal.  Foreign keys are on.                       *)
(***************************************************************************)
EXTENDS Integers

CONSTANTS Callers, Opps,
          Given,         \* statuses staff or a portal may give
          Final,         \* "approved", "declined" and "closed"
          MaxRetries,    \* max_retries of a browser submission
          MaxTime, MaxOps, MaxFinds, MaxCrashes  \* bounds

ASSUME ApplicationsAssumption ==
  /\ Final \subseteq Given /\ "none" \notin Given
  /\ Opps # {} /\ MaxTime \in Nat
  /\ MaxRetries \in Nat \ {0}

VARIABLES
  opps,      \* opps[o]: row of opportunities
  apps,      \* apps[o]: row of applications (opportunity_signature is UNIQUE)
  attempts,  \* attempts[o]: the rows of submission_attempts, told apart by
             \* their outcome, number and time
  portal,    \* portal[o]: submissions the donor's portal accepted
  op,        \* op[p]: the operation p runs
  now, started, finds, crashes

vars == <<opps, apps, attempts, portal, op, now, started, finds, crashes>>

Statuses == Given \cup {"new", "submitted", "pending", "in_review"}
NoOpp == [status |-> "none", at |-> 0]
NoApp == [status |-> "none", monitored |-> FALSE, referenced |-> FALSE,
          browser |-> FALSE, at |-> 0]

Kinds == {"submit", "browser", "update", "poll", "pollPortal", "retain"}
RetentionSteps == {"mail", "document", "attempt", "task", "opportunity", "event",
                   "write", "delete"}
Steps == {"look", "portal", "logFailure", "logSuccess", "lookAgain",
          "record", "ask", "apply"} \cup RetentionSteps

\* alone (ghost): no other operation on the opportunity ran at the same time.
NoOp == [step |-> "idle", kind |-> "submit", opp |-> CHOOSE o \in Opps : TRUE,
         status |-> "new", monitored |-> FALSE, attempt |-> 1, alone |-> TRUE]

TypeOK ==
  /\ opps \in [Opps -> [status : Statuses \cup {"none"}, at : 0..MaxTime]]
  /\ apps \in [Opps -> [status : Statuses \cup {"none"}, monitored : BOOLEAN,
                 referenced : BOOLEAN, browser : BOOLEAN, at : 0..MaxTime]]
  /\ attempts \in [Opps -> SUBSET [succeeded : BOOLEAN, number : 1..MaxRetries,
                                   at : 0..MaxTime]]
  /\ portal \in [Opps -> Nat]
  /\ op \in [Callers -> [step : Steps \cup {"idle"}, kind : Kinds, opp : Opps,
               status : Statuses, monitored : BOOLEAN,
               attempt : 1..(MaxRetries + 1), alone : BOOLEAN]]
  /\ now \in 0..MaxTime

Init ==
  /\ opps = [o \in Opps |-> NoOpp]
  /\ apps = [o \in Opps |-> NoApp]
  /\ attempts = [o \in Opps |-> {}]
  /\ portal = [o \in Opps |-> 0]
  /\ op = [p \in Callers |-> NoOp]
  /\ now = 0 /\ started = 0 /\ finds = 0 /\ crashes = 0

-----------------------------------------------------------------------------
At(p, step) == op[p].step = step
Goto(p, step) == op' = [op EXCEPT ![p].step = step]
Finish(p) == op' = [op EXCEPT ![p] = NoOp]
Stored(o) == opps[o].status # "none"
Applied(o) == apps[o].status # "none"

Rest == UNCHANGED <<now, started, finds, crashes>>

\* The operation new begins: it and those it overlaps are no longer alone.
Entered(p, new) ==
  LET overlaps(q) ==
        /\ op[q].step # "idle"
        /\ op[q].opp = new.opp \/ "retain" \in {op[q].kind, new.kind}
  IN  [q \in Callers |->
         IF q = p THEN [new EXCEPT !.alone = \A r \in Callers : ~overlaps(r)]
         ELSE [op[q] EXCEPT !.alone = @ /\ ~overlaps(q)]]

Enter(p, new) ==
  /\ At(p, "idle") /\ started < MaxOps
  /\ started' = started + 1
  /\ op' = Entered(p, new)
  /\ UNCHANGED <<opps, apps, attempts, portal, now, finds, crashes>>

Begin(p) ==
  \E o \in Opps, kind \in Kinds \ {"retain"}, status \in Given :
    Enter(p, [NoOp EXCEPT !.kind = kind, !.opp = o,
       !.status = IF kind \in {"submit", "update"} THEN status ELSE "new",
       !.step = IF kind = "update" THEN "apply" ELSE "look"])

\* Discovery stores an opportunity it does not know.
Discover(o) ==
  /\ ~Stored(o) /\ finds < MaxFinds
  /\ finds' = finds + 1
  /\ opps' = [opps EXCEPT ![o] = [status |-> "new", at |-> now]]
  /\ UNCHANGED <<apps, attempts, portal, op, now, started, crashes>>

-----------------------------------------------------------------------------
\* submit_application: SELECT the opportunity and any application, then INSERT.

\* The step after a look that finds the opportunity and no application.
AfterLook(p) == IF op[p].kind = "browser" THEN "portal" ELSE "record"

\* Mutant: the existing application is not looked for.
LookToSubmitAgain(p) ==
  /\ At(p, "look") /\ op[p].kind \in {"submit", "browser"}
  /\ IF Stored(op[p].opp) THEN Goto(p, AfterLook(p)) ELSE Finish(p)
  /\ UNCHANGED <<opps, apps, attempts, portal>> /\ Rest

LookToSubmit(p) ==
  /\ At(p, "look") /\ op[p].kind \in {"submit", "browser"}
  /\ IF Stored(op[p].opp) /\ ~Applied(op[p].opp)
       THEN Goto(p, AfterLook(p))
       ELSE Finish(p)      \* OpportunityNotFoundError, DuplicateSubmissionError
  /\ UNCHANGED <<opps, apps, attempts, portal>> /\ Rest

LookAgain(p) ==
  /\ At(p, "lookAgain")
  /\ IF Stored(op[p].opp) /\ ~Applied(op[p].opp) THEN Goto(p, "record") ELSE Finish(p)
  /\ UNCHANGED <<opps, apps, attempts, portal>> /\ Rest

\* Mutant: the reference of the portal is not stored.
NewAppUnreferenced(p) ==
  [status |-> op[p].status, monitored |-> FALSE, referenced |-> FALSE,
   browser |-> op[p].kind = "browser", at |-> now]

NewApp(p) ==
  [status |-> op[p].status, monitored |-> FALSE,
   referenced |-> op[p].status = "submitted" /\ op[p].kind = "browser",
   browser |-> op[p].kind = "browser", at |-> now]

Record(p) ==
  LET o == op[p].opp IN
  /\ At(p, "record")
  /\ IF Stored(o) /\ ~Applied(o)       \* else IntegrityError
       THEN /\ apps' = [apps EXCEPT ![o] = NewApp(p)]
            /\ opps' = [opps EXCEPT ![o].status = op[p].status]
       ELSE UNCHANGED <<apps, opps>>
  /\ Finish(p)
  /\ UNCHANGED <<attempts, portal>> /\ Rest

-----------------------------------------------------------------------------
\* submit_application_via_browser

\* browser_client.submit: it returns a reference, or raises before or after
\* the portal has taken the submission.
Accept(p) ==
  /\ At(p, "portal")
  /\ portal' = [portal EXCEPT ![op[p].opp] = @ + 1]
  /\ Goto(p, "logSuccess")
  /\ UNCHANGED <<opps, apps, attempts>> /\ Rest

Raise(p) ==
  /\ At(p, "portal")
  /\ \E taken \in {0, 1} : portal' = [portal EXCEPT ![op[p].opp] = @ + taken]
  /\ Goto(p, "logFailure")
  /\ UNCHANGED <<opps, apps, attempts>> /\ Rest

Logged(p, succeeded) ==
  [attempts EXCEPT ![op[p].opp] = @ \cup
     {[succeeded |-> succeeded, number |-> op[p].attempt, at |-> now]}]

LogSuccess(p) ==
  /\ At(p, "logSuccess")
  /\ attempts' = Logged(p, TRUE)
  /\ op' = [op EXCEPT ![p].status = "submitted", ![p].step = "lookAgain"]
  /\ UNCHANGED <<opps, apps, portal>> /\ Rest

LogFailure(p) ==
  LET next == op[p].attempt + 1 IN
  /\ At(p, "logFailure")
  /\ attempts' = Logged(p, FALSE)
  /\ op' = [op EXCEPT ![p].attempt = next,
              ![p].status = IF next > MaxRetries THEN "pending" ELSE @,
              ![p].step = IF next > MaxRetries THEN "lookAgain" ELSE "portal"]
  /\ UNCHANGED <<opps, apps, portal>> /\ Rest

-----------------------------------------------------------------------------
\* poll_application_status and update_application_status

\* Mutant: a decision is taken for one still in review.
LocalStatusReset(status) == "in_review"

\* The status a poll without an HTTP client makes up.
LocalStatus(status) == IF status \in Final THEN status ELSE "in_review"

LookToPoll(p) ==
  LET a == apps[op[p].opp]
      found == LocalStatus(a.status)
      changed == found # a.status \/ ~a.monitored
  IN
  /\ At(p, "look") /\ op[p].kind \in {"poll", "pollPortal"}
  /\ \/ /\ Applied(op[p].opp) /\ op[p].kind = "pollPortal"
        /\ op' = [op EXCEPT ![p].status = a.status, ![p].monitored = a.monitored,
                            ![p].step = "ask"]
     \/ /\ Applied(op[p].opp) /\ op[p].kind = "poll" /\ changed
        /\ op' = [op EXCEPT ![p].status = found, ![p].monitored = TRUE,
                            ![p].step = "apply"]
     \/ /\ Applied(op[p].opp) => op[p].kind = "poll" /\ ~changed
        /\ Finish(p)
  /\ UNCHANGED <<opps, apps, attempts, portal>> /\ Rest

\* The HTTP client's answer, with a status and a next_action of the portal's;
\* for one that is missing, what was read of the application is written back.
Ask(p) ==
  /\ At(p, "ask")
  /\ \/ \E status \in Given \cup {op[p].status},
           monitored \in {FALSE, op[p].monitored} :
         op' = [op EXCEPT ![p].status = status, ![p].monitored = monitored,
                          ![p].step = "apply"]
     \/ Finish(p)    \* nothing has changed, or the request fails
  /\ UNCHANGED <<opps, apps, attempts, portal>> /\ Rest

\* update_application_status: both tables in one transaction.
Apply(p) ==
  LET o == op[p].opp IN
  /\ At(p, "apply")
  /\ IF Applied(o)
       THEN /\ apps' = [apps EXCEPT ![o].status = op[p].status,
                                    ![o].monitored = op[p].monitored]
            /\ opps' = [opps EXCEPT ![o].status = op[p].status]
       ELSE UNCHANGED <<apps, opps>>
  /\ Finish(p)
  /\ UNCHANGED <<attempts, portal>> /\ Rest

-----------------------------------------------------------------------------
Crash(p) ==
  /\ op[p].step # "idle" /\ crashes < MaxCrashes
  /\ crashes' = crashes + 1
  /\ Finish(p)
  /\ UNCHANGED <<opps, apps, attempts, portal, now, started, finds>>

Tick ==
  /\ now < MaxTime
  /\ now' = now + 1
  /\ UNCHANGED <<opps, apps, attempts, portal, op, started, finds, crashes>>

Step(p) == \/ LookToSubmit(p) \/ LookAgain(p) \/ Record(p) \/ Accept(p)
           \/ Raise(p) \/ LogSuccess(p) \/ LogFailure(p) \/ LookToPoll(p)
           \/ Ask(p) \/ Apply(p)

Next == \/ \E p \in Callers : Begin(p) \/ Step(p) \/ Crash(p)
        \/ \E o \in Opps : Discover(o)
        \/ Tick

Spec == Init /\ [][Next]_vars

-----------------------------------------------------------------------------
(* Properties *)

\* The two tables tell the same: an application has its opportunity, and the
\* status of one is the status of the other, whatever submissions, updates,
\* polls and retention runs overlap.
StatusesAgree ==
  \A o \in Opps : Applied(o) => Stored(o) /\ opps[o].status = apps[o].status

\* A submission that has called the portal, whatever came of the calls.
CalledPortal(n) ==
  /\ n.kind = "browser"
  /\ \/ n.attempt > 1
     \/ n.step \in {"logSuccess", "logFailure", "lookAgain", "record"}

\* A submission that called the portal ends as an application, so that no later
\* one gives the opportunity to the portal again: "submitted", with the portal's
\* reference, if a call returned, and "pending" without one if each raised,
\* though the portal may have taken it.  Excepted are a submission another
\* operation on the opportunity overlapped and one whose process died.
PortalCallsAreRecorded ==
  [][\A p \in Callers :
       LET o == op[p].opp IN
       /\ CalledPortal(op[p]) /\ op[p].alone
       /\ op'[p].step = "idle" /\ crashes' = crashes
       => /\ apps'[o].status \in {"submitted", "pending"}
          /\ apps'[o].status = op[p].status /\ opps'[o].status = op[p].status
          /\ apps'[o].referenced <=> op[p].status = "submitted"]_vars

\* "prevent duplicate applications" (README.md:9): the portal is not given an
\* opportunity that has an application, by a submission nothing overlapped.
OnlyNewIsSubmitted ==
  [][\A p \in Callers :
       portal'[op[p].opp] # portal[op[p].opp] /\ op'[p] # op[p] /\ op[p].alone
       => ~Applied(op[p].opp)]_vars

\* A final decision is changed only by staff or by what the portal answers:
\* a poll without an HTTP client keeps it, unless it was read before the
\* decision was stored.
DecisionsStand ==
  [][\A o \in Opps :
       apps[o].status \in Final /\ apps'[o].status # apps[o].status =>
         \E p \in Callers :
           /\ At(p, "apply") /\ op[p].opp = o /\ op'[p] # op[p]
           /\ op[p].kind \in {"update", "pollPortal"} \/ ~op[p].alone]_vars

=============================================================================
