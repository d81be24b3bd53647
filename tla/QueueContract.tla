---------------------------- MODULE QueueContract ----------------------------
(***************************************************************************)
(* What the queue runner promises for each idempotency key, whatever the   *)
(* number of requests, signals and crashes: its work is begun by one run   *)
(* at most, a run that ended stays as it ended, and a dead letter is the   *)
(* trace of a failed run.                                                  *)
(***************************************************************************)
EXTENDS Naturals

CONSTANT Keys

VARIABLES phase,       \* how far the run of each key is
          runs,        \* runs that have begun the work of each key
          deadLetters  \* keys whose failure was set aside for review

vars == <<phase, runs, deadLetters>>

Init ==
  /\ phase = [k \in Keys |-> "absent"]
  /\ runs = [k \in Keys |-> 0]
  /\ deadLetters = {}

Start(k) ==
  /\ phase[k] = "absent"
  /\ phase' = [phase EXCEPT ![k] = "running"]
  /\ UNCHANGED <<runs, deadLetters>>

Work(k) ==
  /\ phase[k] = "running" /\ runs[k] = 0
  /\ runs' = [runs EXCEPT ![k] = 1]
  /\ UNCHANGED <<phase, deadLetters>>

\* Only a run that has begun its work completes or fails.
End(k, how) ==
  /\ phase[k] = "running"
  /\ how = "cancelled" \/ runs[k] = 1
  /\ phase' = [phase EXCEPT ![k] = how]
  /\ UNCHANGED <<runs, deadLetters>>

SetAside(k) ==
  /\ phase[k] = "failed"
  /\ deadLetters' = deadLetters \cup {k}
  /\ UNCHANGED <<phase, runs>>

Next ==
  \E k \in Keys :
    \/ Start(k) \/ Work(k) \/ SetAside(k)
    \/ \E how \in {"completed", "failed", "cancelled"} : End(k, how)

Spec == Init /\ [][Next]_vars
=============================================================================
