---------------------------- MODULE MCRuntimeExit ----------------------------
(* An App that registers two callbacks, one of them with its exit event, and one
   worker that runs them: the worker can register the second inside the first. *)
EXTENDS RuntimeExit

CONSTANTS main, worker, exiting, ordinary

MCThreads == {main, worker}
MCCallbacks == {exiting, ordinary}
MCExitCallbacks == {exiting}
=============================================================================
