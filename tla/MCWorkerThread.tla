-------------------------- MODULE MCWorkerThread --------------------------
(***************************************************************************)
(* Small instances of WorkerThread for TLC.                                *)
(***************************************************************************)
EXTENDS WorkerThread
=============================================================================
