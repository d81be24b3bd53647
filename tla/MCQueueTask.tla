----------------------------- MODULE MCQueueTask -----------------------------
(* QueueTask for TLC: workers are interchangeable. *)
EXTENDS QueueTask, TLC

WorkerSymmetry == Permutations(Workers)
=============================================================================
