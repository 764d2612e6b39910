---------------------------- MODULE MCJevClient ----------------------------
(* A small instance of JevClient for TLC.                                  *)
EXTENDS JevClient, TLC
=============================================================================
