---------------------------- MODULE MCStressGuest ----------------------------
(* Three workers; the deadline, the alarm and the timeout one tick apart.  *)
EXTENDS StressGuest
==============================================================================
