------------------------ MODULE MCSideEffectOutbox ------------------------
(***************************************************************************)
(* Small instances of SideEffectOutbox for TLC.                            *)
(***************************************************************************)
EXTENDS SideEffectOutbox, TLC

\* Executors are interchangeable in the safety runs.
ExecutorSymmetry == Permutations(Executors)
=============================================================================
