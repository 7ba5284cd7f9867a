---------------------------- MODULE MCWorkerTask ----------------------------
(***************************************************************************)
(* Small instances of WorkerTask.                                          *)
(***************************************************************************)
EXTENDS WorkerTask

CONSTANTS start, send1, send2
=============================================================================
