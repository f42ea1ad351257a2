-------------------------- MODULE MCMediaTaskManager --------------------------
(* MediaTaskManager with two tasks, workers and clients. *)
EXTENDS MediaTaskManager
=============================================================================
