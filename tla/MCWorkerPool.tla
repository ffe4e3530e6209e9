---------------------------- MODULE MCWorkerPool ----------------------------
(* Instances of WorkerPool for TLC.                                         *)
EXTENDS WorkerPool

AllOperations == {"add", "remove", "rebuild", "rescan", "reboot", "exhausted", "suspect"}
=============================================================================
