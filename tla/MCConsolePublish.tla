-------------------------- MODULE MCConsolePublish --------------------------
(* A small instance of ConsolePublish, within a run of the process, for    *)
(* TLC.                                                                    *)
EXTENDS ServerRun
=============================================================================
