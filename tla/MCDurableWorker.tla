-------------------------- MODULE MCDurableWorker --------------------------
(***************************************************************************)
(* Small instances of DurableWorker for TLC.                               *)
(***************************************************************************)
EXTENDS DurableWorker, TLC

\* Workers are interchangeable in the safety runs.
WorkerSymmetry == Permutations(Workers)
=============================================================================
