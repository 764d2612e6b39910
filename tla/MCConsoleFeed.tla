--------------------------- MODULE MCConsoleFeed ---------------------------
(* A small instance of ConsoleFeed for TLC.                                *)
EXTENDS ConsoleFeed, TLC
=============================================================================
