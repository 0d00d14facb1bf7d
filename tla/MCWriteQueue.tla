---------------------------- MODULE MCWriteQueue ----------------------------
(***************************************************************************)
(* A small write queue: two host threads, writes that are empty, fit, fill *)
(* the queue or can never fit.                                             *)
(***************************************************************************)
EXTENDS WriteQueue
=============================================================================
