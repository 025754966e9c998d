---------------------------- MODULE MCSyncWorker ----------------------------
(* The sync pod with one caller of exec_wait beside connections, transfers *)
(* and a controller that may fall silent.                                  *)
EXTENDS SyncWorker

CONSTANT c1
=============================================================================
