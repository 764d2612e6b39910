----------------------- MODULE MCInterestLifecycle -----------------------
(* A small instance of InterestLifecycle for TLC.                          *)
EXTENDS InterestLifecycle, TLC
=============================================================================
