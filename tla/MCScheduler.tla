----------------------------- MODULE MCScheduler -----------------------------
(* Small instances of Scheduler.                                            *)
EXTENDS Scheduler, TLC

WorkerSymmetry == Permutations(Workers) \cup Permutations(Names)
=============================================================================
